---- MODULE Spec2Model ----
(***************************************************************************)
(* State-machine model of the P2P Safe onboarding SDK: the Safe            *)
(* deployment, the batched Roles setup (MultiSend through the Safe's own   *)
(* execTransaction), the counter read with bounded retry, the              *)
(* approved-hash signature and the token transfer, together with the part  *)
(* of the chain (Safe, proxy factory, MultiSendCallOnly, Roles modifier)   *)
(* that these operations read and write.                                   *)
(*                                                                         *)
(* Addresses, selectors and calldata words are natural numbers; calldata   *)
(* is a sequence of words whose first word is the function selector.       *)
(***************************************************************************)
EXTENDS Integers, Sequences, FiniteSets, TLC

\* ------------------------------------------------------------------ bounds
\* number of top-level operations a caller invokes in one behaviour
MaxOps == 2
\* number of transactions the chain mines in one behaviour
MaxTxs == 3
\* number of token transfers the wrapper onboardClient is asked for
MaxTransfers == 1
\* number of calls in a list handed to the batcher on its own
MaxCalls == 2
\* number of characters of an amount string, and the magnitude of the
\* mantissa of an amount number or bigint
MaxChars == 3

\* --------------------------------------------------------------- addresses
ZeroAddress == 0
\* walletClient.account.address: the key that sends every transaction
WalletAccount == 1
\* a params.clientAddress that is not the wallet account
OtherClient == 2
P2P_ADDRESS == 3
P2P_SUPERFORM_PROXY_FACTORY_ADDRESS == 4
ROLES_MASTER_COPY_ADDRESS == 5
SAFE_SINGLETON_ADDRESS == 6
SAFE_PROXY_FACTORY_ADDRESS == 7
SAFE_MULTI_SEND_CALL_ONLY_ADDRESS == 8
\* the Zodiac module proxy factory the Roles deployment call targets
MODULE_PROXY_FACTORY_ADDRESS == 9
\* an ERC-20 token handed to transferAsset
TokenAddress == 10
\* a singleton and a proxy factory given to deploySafe in place of the defaults
CustomSingleton == 11
CustomFactory == 12
\* the SafeL2 singleton of the deployment records
SafeL2Singleton == 13
\* "undefined" for an optional address or number
Undefined == -1

\* --------------------------------------------------------------- selectors
SelEnableModule == 21
SelDeployModule == 22
SelAssignRoles == 23
SelSetDefaultRole == 24
SelAllowTarget == 25
SelScopeTarget == 26
SelAllowFunction == 27
SelScopeFunction == 28
SelDeposit == 31
SelWithdraw == 32
SelMultiSend == 33

\* keccak256(stringToHex('P2P_SUPERFORM_ROLE'))
DEFAULT_ROLE_KEY == 40

\* SafeTransactionOperation
OperationCall == 0
OperationDelegateCall == 1

\* rolesExecutionOptions.None
ExecutionOptionsNone == 0

\* the name viem gives the "returned no data" error
ZeroDataName == "ContractFunctionZeroDataError"

\* ------------------------------------------------------------ pure helpers
RECURSIVE Zeros(_)
Zeros(n) == IF n <= 0 THEN <<>> ELSE <<0>> \o Zeros(n - 1)

\* a 20-byte address: the model's address number in the low byte
AddressBytes(a) == Zeros(19) \o <<a>>

\* viem padHex(hex, { size }): left-pad with zero bytes
PadHex(bytes, size) == Zeros(size - Len(bytes)) \o bytes

\* the address a 32-byte left-padded word holds
AddressOfWord(word) == word[Len(word)]

\* ------------------------------------------------- address derivation rules
\* SafeProxyFactory.createProxyWithNonce: CREATE2 over (initializer, saltNonce);
\* the initializer of this SDK varies only in the owner
SafeAddressOf(owner, salt) == 100 + 10 * owner + salt

\* ModuleProxyFactory.deployModule: CREATE2 over (masterCopy, initializer, salt);
\* the initializer holds owner = avatar = target = the Safe
RolesAddressOf(masterCopy, safe, salt) == 10000 + 1000 * masterCopy + 10 * (safe - 100) + salt

\* P2pSuperformProxyFactory.predictP2pYieldProxyAddress(client, depositBps, profitBps)
PredictP2pYieldProxyAddress(client, depositBps, profitBps) ==
    20000 + 4 * client + 2 * (depositBps % 2) + (profitBps % 2)

\* ------------------------------------------------------------ error values
\* what a failed chain read throws: an Error (name, message), a bare string
\* (held in message) or some other thrown object
MsgOther == "execution reverted"
MsgNoData == "The contract function returned no data (0x)"
MsgHasName == "ContractFunctionZeroDataError: nonce"
MsgWalletAccount == "Wallet client must have an active account"
MsgSafeRequired == "Safe address is required; call deploySafe() first or provide safeAddress"
MsgNoMultiSend == "Could not resolve MultiSendCallOnly address for Safe transaction batching"
MsgNoSingleton == "No Safe singleton deployment found for chain"
MsgNoFactory == "No Safe proxy factory deployment found for chain"
MsgNoProxyCreation == "Safe proxy creation event not found in transaction receipt"
MsgRejected == "transaction rejected"
MsgTimeout == "Timed out while waiting for transaction"
MsgUnableToRead == "Unable to read Safe nonce after retries"
MsgFeeFetcher == "fee configuration unavailable"

\* String.prototype.includes for the two needles the code looks for
IncludesZeroDataName(message) == message = MsgHasName
IncludesReturnedNoData(message) == message = MsgNoData

MkError(name, message) == [type |-> "Error", name |-> name, message |-> message]

NoError == [type |-> "none", name |-> "", message |-> ""]

\* the failures the environment can answer a read with
ReadErrors ==
    { MkError(ZeroDataName, MsgOther),
      MkError("ContractFunctionExecutionError", MsgNoData),
      MkError("Error", MsgHasName),
      MkError("ContractFunctionExecutionError", MsgOther),
      [type |-> "string", name |-> "", message |-> MsgNoData],
      [type |-> "string", name |-> "", message |-> MsgHasName],
      [type |-> "string", name |-> "", message |-> MsgOther],
      [type |-> "object", name |-> "", message |-> MsgNoData] }

isContractFunctionZeroDataError(error) ==
    IF error.type = "Error"
    THEN \/ error.name = ZeroDataName
         \/ IncludesZeroDataName(error.message)
         \/ IncludesReturnedNoData(error.message)
    ELSE IF error.type = "string"
    THEN \/ IncludesZeroDataName(error.message)
         \/ IncludesReturnedNoData(error.message)
    ELSE FALSE

normalizeContractFunctionZeroDataError(error) ==
    IF error.type = "Error"
    THEN IF error.name = ZeroDataName
         THEN error
         ELSE MkError(ZeroDataName, error.message)
    ELSE MkError(ZeroDataName,
                 IF error.type = "string" THEN error.message ELSE MsgNoData)

\* ------------------------------------------------------------ call builders
MkCall(to, value, data, operation) ==
    [to |-> to, value |-> value, data |-> data, operation |-> operation]

\* roles.ts prepareRolesModuleDeployment: the deployModule call on the module
\* proxy factory and the address that call will create
RolesDeploymentCall(masterCopy, ownerAddress, safeAddress, salt) ==
    MkCall(MODULE_PROXY_FACTORY_ADDRESS, 0,
           <<SelDeployModule, masterCopy, ownerAddress, safeAddress, safeAddress, salt>>,
           OperationCall)

\* roles.ts prepareRolesPermissions: assign the role, then one selector-level
\* scope per (target, selector) pair
prepareRolesPermissions(rolesAddress, roleKey, p2pModuleAddress, factoryAddress, predictedProxyAddress) ==
    << MkCall(rolesAddress, 0, <<SelAssignRoles, p2pModuleAddress, roleKey, 1>>, OperationCall),
       MkCall(rolesAddress, 0,
              <<SelAllowFunction, roleKey, factoryAddress, SelDeposit, ExecutionOptionsNone>>,
              OperationCall),
       MkCall(rolesAddress, 0,
              <<SelAllowFunction, roleKey, predictedProxyAddress, SelWithdraw, ExecutionOptionsNone>>,
              OperationCall) >>

\* the enableModule(rolesAddress) call on the Safe itself
EnableModuleCall(safeAddress, rolesAddress) ==
    MkCall(safeAddress, 0, <<SelEnableModule, rolesAddress>>, OperationCall)

\* BatchedCalls with the permission calls ahead of the deployment they configure
BatchedCallsPermissionsFirst(deploymentCall, permissionCalls, enableModuleCall) ==
    permissionCalls \o <<deploymentCall, enableModuleCall>>

\* BatchedCalls without the enable-module call
BatchedCallsNoEnable(deploymentCall, permissionCalls, enableModuleCall) ==
    <<deploymentCall>> \o permissionCalls

\* BatchedCalls with the module enabled before it is configured
BatchedCallsEnableBeforePermissions(deploymentCall, permissionCalls, enableModuleCall) ==
    <<deploymentCall, enableModuleCall>> \o permissionCalls

\* the list setPermissions / onboardClient hand to the batcher
BatchedCalls(deploymentCall, permissionCalls, enableModuleCall) ==
    <<deploymentCall>> \o permissionCalls \o <<enableModuleCall>>

\* encodeMultiSendCallData writing the calls last to first
RECURSIVE encodeMultiSendCallDataReversed(_)
encodeMultiSendCallDataReversed(calls) ==
    IF calls = <<>> THEN <<>>
    ELSE LET c == Head(calls)
         IN encodeMultiSendCallDataReversed(Tail(calls))
            \o <<c.operation, c.to, c.value, Len(c.data)>> \o c.data

\* utils/multisend encodeMultiSendCallData: per call, in order, the operation
\* tag, the target, the value, the payload length and the payload
RECURSIVE encodeMultiSendCallData(_)
encodeMultiSendCallData(calls) ==
    IF calls = <<>> THEN <<>>
    ELSE LET c == Head(calls)
         IN <<c.operation, c.to, c.value, Len(c.data)>> \o c.data
            \o encodeMultiSendCallData(Tail(calls))

\* encodeFunctionData(multiSend, [transactions]): selector, length, bytes
MultiSendData(encodedTransactions) ==
    <<SelMultiSend, Len(encodedTransactions)>> \o encodedTransactions

\* MultiSendCallOnly.multiSend's own parsing of the packed transactions
RECURSIVE DecodeMultiSend(_)
DecodeMultiSend(bytes) ==
    IF Len(bytes) < 4 THEN <<>>
    ELSE LET n == bytes[4]
         IN <<MkCall(bytes[2], bytes[3], SubSeq(bytes, 5, 4 + n), bytes[1])>>
            \o DecodeMultiSend(SubSeq(bytes, 5 + n, Len(bytes)))

\* an approved-hash signature whose s word repeats the owner address
ApprovedHashSignatureOwnerInS(ownerAddress) ==
    PadHex(AddressBytes(ownerAddress), 32) \o PadHex(AddressBytes(ownerAddress), 32) \o <<1>>

\* executeSafeTransaction's approved-hash signature: r = the owner address
\* left-padded to 32 bytes, s = 32 zero bytes, v = 01
ApprovedHashSignature(ownerAddress) ==
    PadHex(AddressBytes(ownerAddress), 32) \o PadHex(<<>>, 32) \o <<1>>

\* Safe.getTransactionHash: injective in every field it is given
TransactionHash(safe, to, value, data, operation, safeTxGas, baseGas, gasPrice, gasToken, refundReceiver, nonce) ==
    <<safe, to, value, data, operation, safeTxGas, baseGas, gasPrice, gasToken, refundReceiver, nonce>>

\* ------------------------------------------------------------ chain rules
\* deploySafe's Safe.setup initializer: the owner list and the threshold
SafeInitializer(ownerAddress) ==
    [owners |-> <<ownerAddress>>, threshold |-> 1]

Range(seq) == { seq[i] : i \in DOMAIN seq }

\* the Safe that setup(initializer) leaves behind
NewSafe(initializer) ==
    [owners |-> Range(initializer.owners), threshold |-> initializer.threshold,
     nonce |-> 0, modules |-> {}]

\* the Roles modifier that deployModule + setUp leaves behind
NewRoles(owner, avatar) ==
    [owner |-> owner, avatar |-> avatar, members |-> {}, functions |-> {},
     targets |-> {}, conditions |-> {}]

Put(f, k, v) == [x \in DOMAIN f \cup {k} |-> IF x = k THEN v ELSE f[x]]

Failed(st) == [st EXCEPT !.ok = FALSE]

\* one call of a batch as the chain executes it, msg.sender = sender; a call to
\* an address that holds no contract succeeds and changes nothing
ApplyCall(st, sender, c) ==
    IF ~st.ok THEN st
    ELSE IF c.operation # OperationCall THEN Failed(st)
    ELSE IF c.to = MODULE_PROXY_FACTORY_ADDRESS /\ c.data[1] = SelDeployModule
    THEN LET addr == RolesAddressOf(c.data[2], c.data[4], c.data[6])
         IN IF addr \in DOMAIN st.roles THEN Failed(st)
            ELSE [st EXCEPT !.roles = Put(st.roles, addr, NewRoles(c.data[3], c.data[4]))]
    ELSE IF c.to \in DOMAIN st.roles
    THEN LET r == st.roles[c.to]
         IN IF sender # r.owner THEN Failed(st)
            ELSE IF c.data[1] = SelAssignRoles
            THEN [st EXCEPT !.roles[c.to].members = @ \cup {<<c.data[2], c.data[3]>>}]
            ELSE IF c.data[1] = SelAllowFunction
            THEN [st EXCEPT !.roles[c.to].functions = @ \cup {<<c.data[2], c.data[3], c.data[4]>>}]
            ELSE IF c.data[1] = SelAllowTarget
            THEN [st EXCEPT !.roles[c.to].targets = @ \cup {<<c.data[2], c.data[3]>>}]
            ELSE IF c.data[1] = SelScopeFunction
            THEN [st EXCEPT !.roles[c.to].conditions = @ \cup {<<c.data[2], c.data[3], c.data[4]>>}]
            ELSE st
    ELSE IF c.to \in DOMAIN st.safes /\ c.data[1] = SelEnableModule
    THEN IF sender # c.to \/ c.data[2] \in st.safes[c.to].modules THEN Failed(st)
         ELSE [st EXCEPT !.safes[c.to].modules = @ \cup {c.data[2]}]
    ELSE st

RECURSIVE ApplyCalls(_, _, _)
ApplyCalls(st, sender, calls) ==
    IF calls = <<>> THEN st
    ELSE ApplyCalls(ApplyCall(st, sender, Head(calls)), sender, Tail(calls))

\* Safe.checkSignatures for one approved-hash signature: v = 1, r the approving
\* owner, who must be the sender (no hash is ever approved on chain here)
SignatureAccepted(safe, sender, signature) ==
    /\ Len(signature) = 65
    /\ signature[65] = 1
    /\ AddressOfWord(SubSeq(signature, 1, 32)) = sender
    /\ sender \in safe.owners
    /\ safe.threshold = 1

\* Safe.execTransaction: all of the transaction or none of it (safeTxGas = 0
\* and gasPrice = 0 make a failed inner call revert the whole transaction)
ExecTransaction(st, safeAddress, sender, tx, signature) ==
    IF safeAddress \notin DOMAIN st.safes THEN Failed(st)
    ELSE IF ~SignatureAccepted(st.safes[safeAddress], sender, signature) THEN Failed(st)
    ELSE LET bumped == [st EXCEPT !.safes[safeAddress].nonce = @ + 1]
             after ==
               IF tx.operation = OperationDelegateCall
               THEN IF tx.to = SAFE_MULTI_SEND_CALL_ONLY_ADDRESS /\ tx.data[1] = SelMultiSend
                    THEN ApplyCalls(bumped, safeAddress,
                                    DecodeMultiSend(SubSeq(tx.data, 3, Len(tx.data))))
                    ELSE Failed(bumped)
               ELSE ApplyCall(bumped, safeAddress, tx)
         IN IF after.ok THEN after ELSE Failed(st)

\* SafeProxyFactory.createProxyWithNonce
CreateProxy(st, initializer, salt) ==
    LET addr == SafeAddressOf(initializer.owners[1], salt)
    IN IF addr \in DOMAIN st.safes THEN Failed(st)
       ELSE [st EXCEPT !.safes = Put(st.safes, addr, NewSafe(initializer))]

\* the effect of one transaction on the chain state
ApplyTx(st, tx) ==
    IF tx.kind = "createProxy" THEN CreateProxy(st, tx.args.initializer, tx.args.saltNonce)
    ELSE IF tx.kind = "exec" THEN ExecTransaction(st, tx.to, tx.from, tx.args.tx, tx.args.signature)
    ELSE st

\* ------------------------------------------------------------------- state
VARIABLES
    safes,                  \* chain: Safe address -> owners, threshold, nonce, modules
    roles,                  \* chain: Roles modifier address -> owner, members, scopes
    txs,                    \* chain: every transaction the wallet account submitted
    clock,                  \* source of the generated salt nonces
    config,                 \* the resolved OnboardingConfig
    lastSafeAddress,        \* OnboardingClient.lastSafeAddress
    lastMultiSendCallOnly,  \* OnboardingClient.lastMultiSendCallOnly
    op,                     \* the operation the caller is running
    pc,                     \* the await the operation is at
    loc,                    \* the operation's local variables
    obs,                    \* the chain reads and writes the operation issued
    result,                 \* what the last finished operation returned or threw
    opsDone,                \* operations started so far
    current,                \* the caller whose operation is running
    other                   \* the suspended operation of the other caller

vars == <<safes, roles, txs, clock, config, lastSafeAddress, lastMultiSendCallOnly,
          op, pc, loc, obs, result, opsDone, current, other>>

\* an address setPermissions can be handed that holds no contract
NotASafe == 99

\* fee terms: the default of the fee source, and one a client may have
DefaultDepositBps == 0
DefaultProfitBps == 9700
DefaultFeeConfig == <<DefaultDepositBps, DefaultProfitBps>>
OtherFeeConfig == <<25, 9475>>

\* no receipt at hand
NoReceipt == [status |-> "none", logs |-> <<>>, contractAddress |-> Undefined]

NoTx ==
    [to |-> Undefined, value |-> 0, data |-> <<>>, operation |-> OperationCall,
     safeTxGas |-> 0, baseGas |-> 0, gasPrice |-> 0, gasToken |-> ZeroAddress,
     refundReceiver |-> ZeroAddress, nonce |-> Undefined, hash |-> <<>>]

\* a deployment record of @safe-global/safe-deployments: the address on the
\* current chain and the default address
Deployment(networkAddress, defaultAddress) ==
    [found |-> TRUE, networkAddress |-> networkAddress, defaultAddress |-> defaultAddress]

\* the package has no record for the chain
NoDeployment == [found |-> FALSE, networkAddress |-> Undefined, defaultAddress |-> Undefined]

\* ------------------------------------------------------ token amount values
\* TokenTransfer['amount']: a bigint, a number or a string, and what an
\* untyped caller may pass instead; a bigint is its mantissa, a number is NaN,
\* an infinity or the double mantissa * 2^exp2, a string is the sequence of
\* its characters
AmountInput(kind, class, mantissa, exp2, chars) ==
    [kind |-> kind, class |-> class, mantissa |-> mantissa, exp2 |-> exp2, chars |-> chars]

\* what normalizeTokenAmount ends with: a thrown error or a returned bigint,
\* and whether the warning was logged; the bigint <<m, e>> is the integer
\* m * 2^e (e is 0 but for the doubles beyond the safe integer range, whose
\* value no machine integer here holds)
AmountOutcome(error, value, logged) == [error |-> error, value |-> value, logged |-> logged]

\* the locals of an operation of OnboardingClient before its first statement;
\* singletonAddress and factoryAddress are what deploySafe resolves from the
\* addresses the client's configuration always holds; safeParam is
\* params.safeAddress of setPermissions and transferAsset, amountParam the
\* amount handed to normalizeTokenAmount and normalized what it ended with
LocInit ==
    [clientAddress |-> Undefined, safeAddress |-> Undefined, multiSendCallOnly |-> Undefined,
     rolesAddress |-> Undefined, deploymentCall |-> MkCall(Undefined, 0, <<>>, OperationCall),
     feeConfig |-> <<>>, predictedProxyAddress |-> Undefined, permissionCalls |-> <<>>,
     batchedCalls |-> <<>>, encodedTransactions |-> <<>>,
     attempt |-> 0, nonce |-> Undefined, rawError |-> NoError, preparedTx |-> NoTx,
     signature |-> <<>>, nextNonce |-> Undefined, txHash |-> Undefined,
     safeDeployment |-> Undefined, amount |-> 0,
     pendingCount |-> Undefined, receipt |-> NoReceipt, rolesSetup |-> Undefined,
     tokenTransfers |-> 0, assetTransfers |-> <<>>,
     feeAnswer |-> <<>>, predictionRequest |-> <<>>, decodedCalls |-> <<>>,
     singletonAddress |-> SAFE_SINGLETON_ADDRESS, factoryAddress |-> SAFE_PROXY_FACTORY_ADDRESS,
     overrides |-> [singleton |-> Undefined, factory |-> Undefined, multiSend |-> Undefined],
     deployments |-> [singletonL2 |-> NoDeployment, singleton |-> NoDeployment,
                      factory |-> NoDeployment, multiSend |-> NoDeployment],
     safeParam |-> Undefined, clientParam |-> Undefined, feeRequest |-> Undefined,
     amountParam |-> AmountInput("none", "", 0, 0, <<>>),
     normalized |-> AmountOutcome(NoError, <<0, 0>>, FALSE)]

ObsInit ==
    [counterReads |-> 0, digestReads |-> 0, writes |-> <<>>, awaited |-> <<>>,
     countReads |-> 0]

NoValue ==
    [safeAddress |-> Undefined, rolesAddress |-> Undefined,
     predictedProxyAddress |-> Undefined, roleKey |-> Undefined,
     transactionHash |-> Undefined, safeDeployment |-> Undefined,
     rolesSetup |-> Undefined, multiSendCallOnly |-> Undefined,
     assetTransfers |-> <<>>]

NoResult ==
    [status |-> "none", at |-> "", error |-> NoError, value |-> NoValue]

ChainState == [safes |-> safes, roles |-> roles, ok |-> TRUE]

\* an operation's own state while the event loop runs the other caller
Context(o, p, l, b, r, n) ==
    [op |-> o, pc |-> p, loc |-> l, obs |-> b, result |-> r, opsDone |-> n]

Suspended == Context("none", "idle", LocInit, ObsInit, NoResult, 0)

\* the configurations a client is constructed with: either salt nonce given or
\* left to be generated, a feeConfigFetcher given or not, and a wallet client
\* with an account or without one
Configs ==
    [safeSaltNonce : {Undefined, 1}, rolesSaltNonce : {Undefined, 1},
     feeConfigFetcher : {FALSE}, account : {TRUE}]
      \cup [safeSaltNonce : {Undefined}, rolesSaltNonce : {Undefined},
            feeConfigFetcher : {TRUE}, account : {TRUE}]
      \cup [safeSaltNonce : {Undefined}, rolesSaltNonce : {Undefined},
            feeConfigFetcher : {FALSE}, account : {FALSE}]

Init ==
    /\ safes = <<>>
    /\ roles = <<>>
    /\ txs = <<>>
    /\ clock = 0
    /\ config \in Configs
    /\ lastSafeAddress = Undefined
    /\ lastMultiSendCallOnly = Undefined
    /\ op = "none"
    /\ pc = "idle"
    /\ loc = LocInit
    /\ obs = ObsInit
    /\ result = NoResult
    /\ opsDone = 0
    /\ current = 1
    /\ other = Suspended

\* ------------------------------------------------------- shared step pieces
\* the operation throws err to its caller; at is the await it was at
Throw(err) ==
    /\ pc' = "idle"
    /\ result' = [status |-> "error", at |-> pc, error |-> err, value |-> NoValue]

\* the operation returns value to its caller
Return(value) ==
    /\ pc' = "idle"
    /\ result' = [status |-> "ok", at |-> pc, error |-> NoError, value |-> value]

\* ConsumeNonce leaving the counter as it was
ConsumeNonceKeepsCounter(nextNonce) ==
    [txNonce |-> nextNonce, nextNonce |-> nextNonce]

\* nonceManager.peekNonce(): the value shown and the counter after it
PeekNonce(nextNonce) ==
    [txNonce |-> nextNonce, nextNonce |-> nextNonce]

\* nonceManager?.consumeNonce(): the value handed out and the counter after it
ConsumeNonce(nextNonce) ==
    IF nextNonce = Undefined
    THEN [txNonce |-> Undefined, nextNonce |-> Undefined]
    ELSE [txNonce |-> nextNonce, nextNonce |-> nextNonce + 1]

\* the salt a deployment uses: the configured one, else a generated one
SaltOrGenerated(configured) == IF configured # Undefined THEN configured ELSE 2 + clock

ClockAfter(configured) == IF configured # Undefined THEN clock ELSE clock + 1

PendingTx(kind, from, to, args, nonce) ==
    [kind |-> kind, from |-> from, to |-> to, args |-> args, nonce |-> nonce,
     status |-> "pending"]

\* the node accepts a write only if its simulation succeeds on the current
\* state and an explicit nonce is the account's next one
Accepts(tx) ==
    /\ Len(txs) < MaxTxs
    /\ ApplyTx(ChainState, tx).ok
    /\ tx.nonce \in {Undefined, Len(txs)}

\* const account = walletClient.account; if (!account) throw
WalletAccountError == MkError("Error", MsgWalletAccount)

RejectedError == MkError("ContractFunctionExecutionError", MsgRejected)
TimeoutError == MkError("WaitForTransactionReceiptTimeoutError", MsgTimeout)
ReadFailedError == MkError("ContractFunctionExecutionError", MsgOther)

\* ------------------------------------------------------------- the caller
ClientParams == {Undefined, OtherClient}

SafeParams == {Undefined, NotASafe} \cup DOMAIN safes

StartOp(name) ==
    /\ pc = "idle"
    /\ opsDone < MaxOps
    /\ opsDone' = opsDone + 1
    /\ op' = name
    /\ obs' = ObsInit
    /\ UNCHANGED <<current, other>>

\* OnboardingClient.deploySafe up to the call of safe.ts deploySafe
CallDeploySafe(clientParam) ==
    /\ StartOp("deploySafe")
    /\ IF ~config.account
       THEN /\ Throw(WalletAccountError)
            /\ loc' = LocInit
       ELSE /\ loc' = [LocInit EXCEPT
                         !.clientParam = clientParam, !.clientAddress = IF clientParam = Undefined THEN WalletAccount
                                           ELSE clientParam]
            /\ pc' = "ds_write"
            /\ result' = NoResult
    /\ UNCHANGED <<safes, roles, txs, clock, config, lastSafeAddress, lastMultiSendCallOnly>>

\* WithRolesDeployment predicting the address for another salt than the one
\* the deployment call carries
WithRolesDeploymentOtherSalt(l, safeAddress) ==
    LET salt == SaltOrGenerated(config.rolesSaltNonce)
    IN [l EXCEPT
          !.rolesAddress = RolesAddressOf(ROLES_MASTER_COPY_ADDRESS, safeAddress, salt + 1),
          !.deploymentCall = RolesDeploymentCall(ROLES_MASTER_COPY_ADDRESS, safeAddress, safeAddress, salt)]

\* roles.ts prepareRolesModuleDeployment as both callers use it: the Safe is
\* owner and avatar; fills rolesAddress and deploymentCall
WithRolesDeployment(l, safeAddress) ==
    LET salt == SaltOrGenerated(config.rolesSaltNonce)
    IN [l EXCEPT
          !.rolesAddress = RolesAddressOf(ROLES_MASTER_COPY_ADDRESS, safeAddress, salt),
          !.deploymentCall = RolesDeploymentCall(ROLES_MASTER_COPY_ADDRESS, safeAddress, safeAddress, salt)]

\* CallSetPermissions that leaves the remembered Account address alone
CallSetPermissionsNotRemembering(safeParam, clientParam) ==
    /\ StartOp("setPermissions")
    /\ LET safeAddress == IF safeParam # Undefined THEN safeParam ELSE lastSafeAddress
           multiSend == IF lastMultiSendCallOnly # Undefined THEN lastMultiSendCallOnly
                        ELSE SAFE_MULTI_SEND_CALL_ONLY_ADDRESS
       IN IF ~config.account
          THEN /\ Throw(WalletAccountError)
               /\ loc' = [LocInit EXCEPT !.safeParam = safeParam]
               /\ UNCHANGED clock
          ELSE IF safeAddress = Undefined
          THEN /\ Throw(MkError("Error", MsgSafeRequired))
               /\ loc' = LocInit
               /\ UNCHANGED clock
          ELSE /\ loc' = WithRolesDeployment(
                            [LocInit EXCEPT
                               !.safeParam = safeParam,
                               !.safeAddress = safeAddress,
                               !.clientParam = clientParam, !.clientAddress = IF clientParam = Undefined THEN WalletAccount
                                                 ELSE clientParam,
                               !.multiSendCallOnly = multiSend],
                            safeAddress)
               /\ clock' = ClockAfter(config.rolesSaltNonce)
               /\ pc' = "sp_fee"
               /\ result' = NoResult
    /\ UNCHANGED <<safes, roles, txs, config, lastSafeAddress, lastMultiSendCallOnly>>

\* OnboardingClient.setPermissions up to resolveFeeConfig
CallSetPermissions(safeParam, clientParam) ==
    /\ StartOp("setPermissions")
    /\ LET safeAddress == IF safeParam # Undefined THEN safeParam ELSE lastSafeAddress
           multiSend == IF lastMultiSendCallOnly # Undefined THEN lastMultiSendCallOnly
                        ELSE SAFE_MULTI_SEND_CALL_ONLY_ADDRESS
       IN IF ~config.account
          THEN /\ Throw(WalletAccountError)
               /\ loc' = [LocInit EXCEPT !.safeParam = safeParam]
               /\ UNCHANGED <<lastSafeAddress, clock>>
          ELSE IF safeAddress = Undefined
          THEN /\ Throw(MkError("Error", MsgSafeRequired))
               /\ loc' = LocInit
               /\ UNCHANGED <<lastSafeAddress, clock>>
          ELSE /\ lastSafeAddress' = safeAddress
               /\ loc' = WithRolesDeployment(
                            [LocInit EXCEPT
                               !.safeParam = safeParam,
                               !.safeAddress = safeAddress,
                               !.clientParam = clientParam, !.clientAddress = IF clientParam = Undefined THEN WalletAccount
                                                 ELSE clientParam,
                               !.multiSendCallOnly = multiSend],
                            safeAddress)
               /\ clock' = ClockAfter(config.rolesSaltNonce)
               /\ pc' = "sp_fee"
               /\ result' = NoResult
    /\ UNCHANGED <<safes, roles, txs, config, lastMultiSendCallOnly>>

\* CallTransferAsset that takes the address from its parameter only
CallTransferAssetParamOnly(safeParam, amount) ==
    /\ StartOp("transferAsset")
    /\ IF ~config.account
       THEN /\ Throw(WalletAccountError)
            /\ loc' = [LocInit EXCEPT !.safeParam = safeParam]
       ELSE IF safeParam = Undefined
       THEN /\ Throw(MkError("Error", MsgSafeRequired))
            /\ loc' = LocInit
       ELSE /\ loc' = [LocInit EXCEPT !.safeParam = safeParam, !.safeAddress = safeParam,
                                     !.amount = amount]
            /\ pc' = "ta_write"
            /\ result' = NoResult
    /\ UNCHANGED <<safes, roles, txs, clock, config, lastSafeAddress, lastMultiSendCallOnly>>

\* OnboardingClient.transferAsset up to writeContract
CallTransferAsset(safeParam, amount) ==
    /\ StartOp("transferAsset")
    /\ LET safeAddress == IF safeParam # Undefined THEN safeParam ELSE lastSafeAddress
       IN IF ~config.account
          THEN /\ Throw(WalletAccountError)
               /\ loc' = [LocInit EXCEPT !.safeParam = safeParam]
          ELSE IF safeAddress = Undefined
          THEN /\ Throw(MkError("Error", MsgSafeRequired))
               /\ loc' = LocInit
          ELSE /\ loc' = [LocInit EXCEPT !.safeParam = safeParam, !.safeAddress = safeAddress,
                                        !.amount = amount]
               /\ pc' = "ta_write"
               /\ result' = NoResult
    /\ UNCHANGED <<safes, roles, txs, clock, config, lastSafeAddress, lastMultiSendCallOnly>>

\* the convenience wrapper OnboardingClient.onboardClient (deploySafe, then
\* setPermissions, then one transferAsset per token transfer) up to the call
\* of deploySafe; tokenTransfers is the length of params.tokenTransfers
CallOnboardClientSteps(clientParam, tokenTransfers) ==
    /\ StartOp("onboardClientSteps")
    /\ IF ~config.account
       THEN /\ Throw(WalletAccountError)
            /\ loc' = [LocInit EXCEPT !.tokenTransfers = tokenTransfers]
       ELSE /\ loc' = [LocInit EXCEPT
                         !.clientParam = clientParam, !.clientAddress = IF clientParam = Undefined THEN WalletAccount
                                           ELSE clientParam,
                         !.tokenTransfers = tokenTransfers]
            /\ pc' = "ds_write"
            /\ result' = NoResult
    /\ UNCHANGED <<safes, roles, txs, clock, config, lastSafeAddress, lastMultiSendCallOnly>>

\* CallOnboardClient without the test of the wallet account
CallOnboardClientNoAccountCheck(clientParam) ==
    /\ StartOp("onboardClient")
    /\ loc' = [LocInit EXCEPT
                 !.clientParam = clientParam, !.clientAddress = IF clientParam = Undefined THEN WalletAccount ELSE clientParam]
    /\ pc' = "ob_count"
    /\ result' = NoResult
    /\ UNCHANGED <<safes, roles, txs, clock, config, lastSafeAddress, lastMultiSendCallOnly>>

\* the nonce-managed OnboardingClient.onboardClient up to getTransactionCount
CallOnboardClient(clientParam) ==
    /\ StartOp("onboardClient")
    /\ IF ~config.account
       THEN /\ Throw(WalletAccountError)
            /\ loc' = LocInit
       ELSE /\ loc' = [LocInit EXCEPT
                         !.clientParam = clientParam, !.clientAddress = IF clientParam = Undefined THEN WalletAccount
                                           ELSE clientParam]
            /\ pc' = "ob_count"
            /\ result' = NoResult
    /\ UNCHANGED <<safes, roles, txs, clock, config, lastSafeAddress, lastMultiSendCallOnly>>

\* publicClient.getTransactionCount({ blockTag: 'pending' })
GetTransactionCount ==
    /\ pc = "ob_count"
    /\ obs' = [obs EXCEPT !.countReads = @ + 1]
    /\ \/ /\ loc' = [loc EXCEPT !.nextNonce = Len(txs), !.pendingCount = Len(txs)]
          /\ pc' = "ds_write"
          /\ UNCHANGED result
       \/ /\ Throw(ReadFailedError)
          /\ UNCHANGED loc
    /\ UNCHANGED <<safes, roles, txs, clock, config, lastSafeAddress, lastMultiSendCallOnly,
                   op, opsDone, current, other>>

\* ------------------------------------------------------- safe.ts deploySafe
\* the createProxyWithNonce write
DeploySafeWrite ==
    /\ pc = "ds_write"
    /\ LET salt == SaltOrGenerated(config.safeSaltNonce)
           n == ConsumeNonce(loc.nextNonce)
           tx == PendingTx("createProxy", WalletAccount, loc.factoryAddress,
                           [singleton |-> loc.singletonAddress,
                            initializer |-> SafeInitializer(loc.clientAddress),
                            saltNonce |-> salt],
                           n.txNonce)
       IN /\ clock' = ClockAfter(config.safeSaltNonce)
          /\ \/ /\ Accepts(tx)
                /\ txs' = Append(txs, tx)
                /\ loc' = [loc EXCEPT !.nextNonce = n.nextNonce, !.txHash = Len(txs) + 1]
                /\ obs' = [obs EXCEPT !.writes = Append(@, Len(txs) + 1)]
                /\ pc' = "ds_wait"
                /\ UNCHANGED result
             \/ /\ Throw(RejectedError)
                /\ loc' = [loc EXCEPT !.nextNonce = n.nextNonce]
                /\ UNCHANGED <<txs, obs>>
    /\ UNCHANGED <<safes, roles, config, lastSafeAddress, lastMultiSendCallOnly, op, opsDone,
                   current, other>>

\* a log of a receipt: the emitting address, the event the factory ABI decodes
\* it to ("" when decodeEventLog throws) and the event's proxy argument
MkLog(address, eventName, proxy) ==
    [address |-> address, eventName |-> eventName, proxy |-> proxy]

\* a proxy address that a log of some other contract carries
DecoyAddress == 98

\* ExtractFromLogs without the test of the emitting address
RECURSIVE ExtractFromLogsAnyEmitter(_, _)
ExtractFromLogsAnyEmitter(logs, factory) ==
    IF logs = <<>> THEN Undefined
    ELSE IF Head(logs).eventName = "ProxyCreation" THEN Head(logs).proxy
    ELSE ExtractFromLogsAnyEmitter(Tail(logs), factory)

\* the loop of deploySafe over receipt.logs: logs of other addresses and logs
\* that do not decode are passed over, the first ProxyCreation gives the address
RECURSIVE ExtractFromLogs(_, _)
ExtractFromLogs(logs, factory) ==
    IF logs = <<>> THEN Undefined
    ELSE IF Head(logs).address # factory THEN ExtractFromLogs(Tail(logs), factory)
    ELSE IF Head(logs).eventName = "ProxyCreation" THEN Head(logs).proxy
    ELSE ExtractFromLogs(Tail(logs), factory)

\* the address deploySafe extracts from a receipt: the ProxyCreation event of
\* the factory, else receipt.contractAddress, else nothing
ExtractSafeAddress(receipt, resolvedFactory) ==
    LET fromLogs == ExtractFromLogs(receipt.logs, resolvedFactory)
    IN IF fromLogs # Undefined THEN fromLogs
       ELSE IF receipt.contractAddress # Undefined THEN receipt.contractAddress
       ELSE Undefined

\* the receipts the node can return for a mined createProxyWithNonce
DeployReceipts(tx) ==
    LET addr == SafeAddressOf(tx.args.initializer.owners[1], tx.args.saltNonce)
        created == MkLog(tx.to, "ProxyCreation", addr)
        foreign == MkLog(addr, "ProxyCreation", DecoyAddress)
        opaque == MkLog(tx.to, "", Undefined)
    IN IF tx.status = "success"
       THEN { [status |-> "success", logs |-> <<created>>, contractAddress |-> Undefined],
              [status |-> "success", logs |-> <<foreign, opaque, created>>,
               contractAddress |-> Undefined],
              [status |-> "success", logs |-> <<foreign, opaque>>, contractAddress |-> addr],
              [status |-> "success", logs |-> <<foreign, opaque>>,
               contractAddress |-> Undefined] }
       ELSE { [status |-> "reverted", logs |-> <<>>, contractAddress |-> Undefined] }

\* waitForTransactionReceipt and the rest of deploySafe; then the caller's
\* continuation: a direct caller of safe.ts deploySafe gets the result as it
\* is, OnboardingClient.deploySafe records the address and returns,
\* the wrapper onboardClient enters setPermissions with the address, the
\* nonce-managed onboardClient goes on to prepare the Roles deployment
DeploySafeReceipt ==
    /\ pc = "ds_wait"
    /\ LET tx == txs[loc.txHash]
       IN \/ /\ tx.status = "pending"
             /\ Throw(TimeoutError)
             /\ UNCHANGED <<loc, obs, lastSafeAddress, lastMultiSendCallOnly, clock>>
          \/ /\ tx.status # "pending"
             /\ \E receipt \in DeployReceipts(tx) :
                  LET safeAddress == ExtractSafeAddress(receipt, loc.factoryAddress)
                      next == WithRolesDeployment(
                                [loc EXCEPT
                                   !.safeAddress = safeAddress,
                                   !.safeDeployment = loc.txHash,
                                   !.multiSendCallOnly = SAFE_MULTI_SEND_CALL_ONLY_ADDRESS],
                                safeAddress)
                  IN /\ obs' = [obs EXCEPT !.awaited = Append(@, loc.txHash)]
                     /\ IF safeAddress = Undefined
                        THEN /\ Throw(MkError("Error", MsgNoProxyCreation))
                             /\ loc' = [loc EXCEPT !.receipt = receipt]
                             /\ UNCHANGED <<lastSafeAddress, lastMultiSendCallOnly, clock>>
                        ELSE IF op = "deploySafe"
                        THEN /\ lastSafeAddress' = safeAddress
                             /\ lastMultiSendCallOnly' = SAFE_MULTI_SEND_CALL_ONLY_ADDRESS
                             /\ loc' = [loc EXCEPT !.safeAddress = safeAddress,
                                                   !.receipt = receipt]
                             /\ Return([NoValue EXCEPT
                                          !.safeAddress = safeAddress,
                                          !.transactionHash = loc.txHash,
                                          !.multiSendCallOnly = SAFE_MULTI_SEND_CALL_ONLY_ADDRESS])
                             /\ UNCHANGED clock
                        ELSE IF op = "deploySafeContract"
                        THEN /\ loc' = [loc EXCEPT !.safeAddress = safeAddress,
                                                   !.receipt = receipt]
                             /\ Return([NoValue EXCEPT
                                          !.safeAddress = safeAddress,
                                          !.transactionHash = loc.txHash,
                                          !.multiSendCallOnly = loc.multiSendCallOnly])
                             /\ UNCHANGED <<lastSafeAddress, lastMultiSendCallOnly, clock>>
                        ELSE IF op = "onboardClientSteps"
                        THEN /\ lastSafeAddress' = safeAddress
                             /\ lastMultiSendCallOnly' = SAFE_MULTI_SEND_CALL_ONLY_ADDRESS
                             /\ loc' = next
                             /\ clock' = ClockAfter(config.rolesSaltNonce)
                             /\ pc' = "sp_fee"
                             /\ UNCHANGED result
                        ELSE /\ loc' = next
                             /\ clock' = ClockAfter(config.rolesSaltNonce)
                             /\ pc' = "sp_fee"
                             /\ UNCHANGED <<result, lastSafeAddress, lastMultiSendCallOnly>>
    /\ UNCHANGED <<safes, roles, txs, config, op, opsDone, current, other>>

\* --------------------------------------------- fee terms and proxy address
\* what the fee source answers: nothing when it is unavailable, else the terms
FeeUnavailable == <<>>

FeeAnswers == {FeeUnavailable, OtherFeeConfig}

\* p2p.ts fetchFeeConfig: the terms the P2P API answers, the default terms
\* when the API is unavailable
fetchFeeConfig(answer) == IF answer = FeeUnavailable THEN DefaultFeeConfig ELSE answer

FeeFetcherError == MkError("Error", MsgFeeFetcher)

\* resolveFeeConfig: the promise of config.feeConfigFetcher when one is
\* configured, else that of fetchFeeConfig
ResolveFeeConfig ==
    /\ pc = "sp_fee"
    /\ \E answer \in FeeAnswers :
         IF config.feeConfigFetcher /\ answer = FeeUnavailable
         THEN /\ Throw(FeeFetcherError)
              /\ loc' = [loc EXCEPT !.feeRequest = loc.clientAddress, !.feeAnswer = answer]
         ELSE /\ loc' = [loc EXCEPT !.feeRequest = loc.clientAddress, !.feeAnswer = answer,
                                    !.feeConfig = IF config.feeConfigFetcher THEN answer
                                                  ELSE fetchFeeConfig(answer)]
              /\ pc' = "sp_predict"
              /\ UNCHANGED result
    /\ UNCHANGED <<safes, roles, txs, clock, config, lastSafeAddress, lastMultiSendCallOnly,
                   op, obs, opsDone, current, other>>

\* PermissionCalls with the predicted proxy passed as the factory address too
PermissionCallsProxyAsFactory(rolesAddress, predictedProxyAddress) ==
    prepareRolesPermissions(rolesAddress, DEFAULT_ROLE_KEY, P2P_ADDRESS,
                            predictedProxyAddress, predictedProxyAddress)

\* the prepareRolesPermissions call of setPermissions / onboardClient
PermissionCalls(rolesAddress, predictedProxyAddress) ==
    prepareRolesPermissions(rolesAddress, DEFAULT_ROLE_KEY, P2P_ADDRESS,
                            P2P_SUPERFORM_PROXY_FACTORY_ADDRESS, predictedProxyAddress)

\* PredictProxyAndBuildBatch that predicts the proxy of the client the fee
\* terms were resolved for
PredictProxyAndBuildBatchForClient ==
    /\ pc = "sp_predict"
    /\ \/ LET request == <<loc.clientAddress, loc.feeConfig[1], loc.feeConfig[2]>>
              predicted == PredictP2pYieldProxyAddress(request[1], request[2], request[3])
              permissionCalls == PermissionCalls(loc.rolesAddress, predicted)
              batchedCalls == BatchedCalls(loc.deploymentCall, permissionCalls,
                                           EnableModuleCall(loc.safeAddress, loc.rolesAddress))
          IN /\ loc' = [loc EXCEPT !.predictionRequest = request,
                                   !.predictedProxyAddress = predicted,
                                   !.permissionCalls = permissionCalls,
                                   !.batchedCalls = batchedCalls,
                                   !.encodedTransactions = encodeMultiSendCallData(batchedCalls),
                                   !.attempt = 0]
             /\ pc' = "prep_nonce"
             /\ UNCHANGED result
       \/ /\ Throw(ReadFailedError)
          /\ UNCHANGED loc
    /\ UNCHANGED <<safes, roles, txs, clock, config, lastSafeAddress, lastMultiSendCallOnly,
                   op, obs, opsDone, current, other>>

\* predictP2pProxyAddress, then the synchronous assembly of the batch up to
\* the first read of prepareSafeTransaction
PredictProxyAndBuildBatch ==
    /\ pc = "sp_predict"
    /\ \/ LET request == <<loc.safeAddress, loc.feeConfig[1], loc.feeConfig[2]>>
              predicted == PredictP2pYieldProxyAddress(request[1], request[2], request[3])
              permissionCalls == PermissionCalls(loc.rolesAddress, predicted)
              batchedCalls == BatchedCalls(loc.deploymentCall, permissionCalls,
                                           EnableModuleCall(loc.safeAddress, loc.rolesAddress))
          IN /\ loc' = [loc EXCEPT !.predictionRequest = request,
                                   !.predictedProxyAddress = predicted,
                                   !.permissionCalls = permissionCalls,
                                   !.batchedCalls = batchedCalls,
                                   !.encodedTransactions = encodeMultiSendCallData(batchedCalls),
                                   !.attempt = 0]
             /\ pc' = "prep_nonce"
             /\ UNCHANGED result
       \/ /\ Throw(ReadFailedError)
          /\ UNCHANGED loc
    /\ UNCHANGED <<safes, roles, txs, clock, config, lastSafeAddress, lastMultiSendCallOnly,
                   op, obs, opsDone, current, other>>

\* ------------------------------------------- safe.ts prepareSafeTransaction
\* the retry loop runs while attempt < MaxAttempts
MaxAttempts == 3

\* the value of attempt at which a transient failure is no longer retried
LastAttempt == 2

\* OnCounterReadError giving up one attempt early
OnCounterReadErrorGivesUpEarly(attempt, error) ==
    IF ~isContractFunctionZeroDataError(error)
    THEN [throw |-> TRUE, error |-> error]
    ELSE IF attempt = LastAttempt - 1
    THEN [throw |-> TRUE, error |-> normalizeContractFunctionZeroDataError(error)]
    ELSE [throw |-> FALSE, error |-> error]

\* OnCounterReadError without the test of the failure's signature
OnCounterReadErrorRetriesAll(attempt, error) ==
    IF attempt = LastAttempt
    THEN [throw |-> TRUE, error |-> normalizeContractFunctionZeroDataError(error)]
    ELSE [throw |-> FALSE, error |-> error]

\* what the catch block of the retry loop does with a failed read
OnCounterReadError(attempt, error) ==
    IF ~isContractFunctionZeroDataError(error)
    THEN [throw |-> TRUE, error |-> error]
    ELSE IF attempt = LastAttempt
    THEN [throw |-> TRUE, error |-> normalizeContractFunctionZeroDataError(error)]
    ELSE [throw |-> FALSE, error |-> error]

\* one readContract(nonce) of the retry loop
ReadSafeNonce ==
    /\ pc = "prep_nonce"
    /\ \/ /\ loc.attempt >= MaxAttempts
          /\ Throw(MkError("Error", MsgUnableToRead))
          /\ UNCHANGED <<loc, obs>>
       \/ /\ loc.attempt < MaxAttempts
          /\ loc.safeAddress \in DOMAIN safes
          /\ obs' = [obs EXCEPT !.counterReads = @ + 1]
          /\ loc' = [loc EXCEPT !.nonce = safes[loc.safeAddress].nonce]
          /\ pc' = "prep_hash"
          /\ UNCHANGED result
       \/ \E error \in ReadErrors :
            /\ loc.attempt < MaxAttempts
            /\ obs' = [obs EXCEPT !.counterReads = @ + 1]
            /\ loc.safeAddress \notin DOMAIN safes => isContractFunctionZeroDataError(error)
            /\ LET todo == OnCounterReadError(loc.attempt, error)
               IN IF todo.throw
                  THEN /\ Throw(todo.error)
                       /\ loc' = [loc EXCEPT !.rawError = error]
                  ELSE /\ loc' = [loc EXCEPT !.attempt = @ + 1]
                       /\ UNCHANGED <<pc, result>>
    /\ UNCHANGED <<safes, roles, txs, clock, config, lastSafeAddress, lastMultiSendCallOnly,
                   op, opsDone, current, other>>

\* PreparedSafeTransaction with the gas refunded to the wallet account
PreparedSafeTransactionRefunded(safeAddress, to, data, value, operation, nonce) ==
    [to |-> to, value |-> value, data |-> data, operation |-> operation,
     safeTxGas |-> 0, baseGas |-> 0, gasPrice |-> 1, gasToken |-> ZeroAddress,
     refundReceiver |-> WalletAccount, nonce |-> nonce,
     hash |-> TransactionHash(safeAddress, to, value, data, operation, 0, 0, 1,
                              ZeroAddress, WalletAccount, nonce)]

\* the PreparedSafeTransaction prepareSafeTransaction returns
PreparedSafeTransaction(safeAddress, to, data, value, operation, nonce) ==
    [to |-> to, value |-> value, data |-> data, operation |-> operation,
     safeTxGas |-> 0, baseGas |-> 0, gasPrice |-> 0, gasToken |-> ZeroAddress,
     refundReceiver |-> ZeroAddress, nonce |-> nonce,
     hash |-> TransactionHash(safeAddress, to, value, data, operation, 0, 0, 0,
                              ZeroAddress, ZeroAddress, nonce)]

\* ReadTransactionHash with the digest read inside a retry loop of its own
ReadTransactionHashRetried ==
    /\ pc = "prep_hash"
    /\ obs' = [obs EXCEPT !.digestReads = @ + 1]
    /\ \/ /\ loc.safeAddress \in DOMAIN safes
          /\ loc' = [loc EXCEPT !.preparedTx =
                        PreparedSafeTransaction(loc.safeAddress, loc.multiSendCallOnly,
                                                MultiSendData(loc.encodedTransactions), 0,
                                                OperationDelegateCall, loc.nonce)]
          /\ pc' = "exec_write"
          /\ UNCHANGED result
       \/ \E error \in ReadErrors :
            LET todo == OnCounterReadError(obs.digestReads + 1, error)
            IN IF todo.throw
               THEN /\ Throw(todo.error)
                    /\ loc' = [loc EXCEPT !.rawError = error]
               ELSE UNCHANGED <<loc, pc, result>>
    /\ UNCHANGED <<safes, roles, txs, clock, config, lastSafeAddress, lastMultiSendCallOnly,
                   op, opsDone, current, other>>

\* readContract(getTransactionHash) and the return of prepareSafeTransaction
ReadTransactionHash ==
    /\ pc = "prep_hash"
    /\ obs' = [obs EXCEPT !.digestReads = @ + 1]
    /\ \/ /\ loc.safeAddress \in DOMAIN safes
          /\ loc' = [loc EXCEPT !.preparedTx =
                        PreparedSafeTransaction(loc.safeAddress, loc.multiSendCallOnly,
                                                MultiSendData(loc.encodedTransactions), 0,
                                                OperationDelegateCall, loc.nonce)]
          /\ pc' = "exec_write"
          /\ UNCHANGED result
       \/ \E error \in ReadErrors :
            /\ Throw(error)
            /\ loc' = [loc EXCEPT !.rawError = error]
    /\ UNCHANGED <<safes, roles, txs, clock, config, lastSafeAddress, lastMultiSendCallOnly,
                   op, opsDone, current, other>>

\* ------------------------------------------- safe.ts executeSafeTransaction
\* ExecArgs that hands the recorded counter on as well
ExecArgsWithNonce(transaction, signature) ==
    [tx |-> MkCall(transaction.to, transaction.value, transaction.data, transaction.operation),
     safeTxGas |-> transaction.safeTxGas, baseGas |-> transaction.baseGas,
     gasPrice |-> transaction.gasPrice, gasToken |-> transaction.gasToken,
     refundReceiver |-> transaction.refundReceiver,
     signature |-> signature, nonce |-> transaction.nonce]

\* the call fields of a prepared transaction that execTransaction is given
ExecArgs(transaction, signature) ==
    [tx |-> MkCall(transaction.to, transaction.value, transaction.data, transaction.operation),
     safeTxGas |-> transaction.safeTxGas, baseGas |-> transaction.baseGas,
     gasPrice |-> transaction.gasPrice, gasToken |-> transaction.gasToken,
     refundReceiver |-> transaction.refundReceiver,
     signature |-> signature]

\* the account is tested, the signature is built and execTransaction is written
ExecuteWrite ==
    /\ pc = "exec_write"
    /\ LET signature == ApprovedHashSignature(WalletAccount)
           n == ConsumeNonce(loc.nextNonce)
           tx == PendingTx("exec", WalletAccount, loc.safeAddress,
                           ExecArgs(loc.preparedTx, signature), n.txNonce)
       IN \/ /\ ~config.account
             /\ Throw(WalletAccountError)
             /\ UNCHANGED <<txs, loc, obs>>
          \/ /\ config.account
             /\ Accepts(tx)
             /\ txs' = Append(txs, tx)
             /\ loc' = [loc EXCEPT !.signature = signature, !.nextNonce = n.nextNonce,
                                   !.txHash = Len(txs) + 1]
             /\ obs' = [obs EXCEPT !.writes = Append(@, Len(txs) + 1)]
             /\ pc' = "exec_wait"
             /\ UNCHANGED result
          \/ /\ config.account
             /\ Throw(RejectedError)
             /\ loc' = [loc EXCEPT !.signature = signature, !.nextNonce = n.nextNonce]
             /\ UNCHANGED <<txs, obs>>
    /\ UNCHANGED <<safes, roles, clock, config, lastSafeAddress, lastMultiSendCallOnly,
                   op, opsDone, current, other>>

\* DeploymentResult without the hashes of the token transfers
DeploymentResultNoTransfers(l, rolesSetup, assetTransfers) ==
    [NoValue EXCEPT !.safeAddress = l.safeAddress,
                    !.rolesAddress = l.rolesAddress,
                    !.predictedProxyAddress = l.predictedProxyAddress,
                    !.roleKey = DEFAULT_ROLE_KEY,
                    !.safeDeployment = l.safeDeployment,
                    !.rolesSetup = rolesSetup]

\* the DeploymentResult of the onboardClient variants; assetTransfers is <<>>
\* when the key is absent
DeploymentResult(l, rolesSetup, assetTransfers) ==
    [NoValue EXCEPT !.safeAddress = l.safeAddress,
                    !.rolesAddress = l.rolesAddress,
                    !.predictedProxyAddress = l.predictedProxyAddress,
                    !.roleKey = DEFAULT_ROLE_KEY,
                    !.safeDeployment = l.safeDeployment,
                    !.rolesSetup = rolesSetup,
                    !.assetTransfers = assetTransfers]

\* what the caller of executeSafeTransaction returns with the hash
ResultOfSetup(l, transactionHash) ==
    IF op = "setPermissions"
    THEN [NoValue EXCEPT !.rolesAddress = l.rolesAddress,
                         !.predictedProxyAddress = l.predictedProxyAddress,
                         !.roleKey = DEFAULT_ROLE_KEY,
                         !.transactionHash = transactionHash]
    ELSE IF op = "executeSafeTransaction"
    THEN [NoValue EXCEPT !.transactionHash = transactionHash]
    ELSE DeploymentResult(l, transactionHash, <<>>)

\* ExecuteReceipt returning the hash without waiting for the receipt
ExecuteReceiptNoWait ==
    /\ pc = "exec_wait"
    /\ Return(ResultOfSetup(loc, loc.txHash))
    /\ UNCHANGED <<safes, roles, txs, clock, config, lastSafeAddress, lastMultiSendCallOnly,
                   op, loc, obs, opsDone, current, other>>

\* ExecuteReceipt writing execTransaction again when the wait fails
ExecuteReceiptResubmits ==
    /\ pc = "exec_wait"
    /\ \/ /\ txs[loc.txHash].status = "pending"
          /\ pc' = "exec_write"
          /\ UNCHANGED <<obs, result>>
       \/ /\ txs[loc.txHash].status # "pending"
          /\ obs' = [obs EXCEPT !.awaited = Append(@, loc.txHash)]
          /\ Return(ResultOfSetup(loc, loc.txHash))
    /\ UNCHANGED <<safes, roles, txs, clock, config, lastSafeAddress, lastMultiSendCallOnly,
                   op, loc, opsDone, current, other>>

\* ExecuteReceipt with the wrapper returning before its token transfers
ExecuteReceiptSkipsTransfers ==
    /\ pc = "exec_wait"
    /\ \/ /\ txs[loc.txHash].status = "pending"
          /\ Throw(TimeoutError)
          /\ UNCHANGED <<obs, loc>>
       \/ /\ txs[loc.txHash].status # "pending"
          /\ obs' = [obs EXCEPT !.awaited = Append(@, loc.txHash)]
          /\ loc' = [loc EXCEPT !.rolesSetup = loc.txHash]
          /\ Return(ResultOfSetup(loc, loc.txHash))
    /\ UNCHANGED <<safes, roles, txs, clock, config, lastSafeAddress, lastMultiSendCallOnly,
                   op, opsDone, current, other>>

\* waitForTransactionReceipt and the return of the hash; the receipt's status
\* is not looked at. The wrapper onboardClient goes on to its token transfers
ExecuteReceipt ==
    /\ pc = "exec_wait"
    /\ \/ /\ txs[loc.txHash].status = "pending"
          /\ Throw(TimeoutError)
          /\ UNCHANGED <<obs, loc>>
       \/ /\ txs[loc.txHash].status # "pending"
          /\ obs' = [obs EXCEPT !.awaited = Append(@, loc.txHash)]
          /\ IF op = "onboardClientSteps" /\ loc.tokenTransfers > 0
             THEN /\ loc' = [loc EXCEPT !.rolesSetup = loc.txHash, !.amount = 1]
                  /\ pc' = "ta_write"
                  /\ UNCHANGED result
             ELSE /\ loc' = [loc EXCEPT !.rolesSetup = loc.txHash]
                  /\ Return(ResultOfSetup(loc, loc.txHash))
    /\ UNCHANGED <<safes, roles, txs, clock, config, lastSafeAddress, lastMultiSendCallOnly,
                   op, opsDone, current, other>>

\* ---------------------------------------------------------- transferAsset
\* TransferWrite preceded by a read of the Safe's counter
TransferWriteReadsCounter ==
    /\ pc = "ta_write"
    /\ LET tx == PendingTx("transfer", WalletAccount, TokenAddress,
                           [to |-> loc.safeAddress, amount |-> loc.amount], Undefined)
       IN \/ /\ Accepts(tx)
             /\ txs' = Append(txs, tx)
             /\ loc' = [loc EXCEPT !.txHash = Len(txs) + 1]
             /\ obs' = [obs EXCEPT !.writes = Append(@, Len(txs) + 1), !.counterReads = @ + 1]
             /\ pc' = "ta_wait"
             /\ UNCHANGED result
          \/ /\ Throw(RejectedError)
             /\ UNCHANGED <<txs, loc, obs>>
    /\ UNCHANGED <<safes, roles, clock, config, lastSafeAddress, lastMultiSendCallOnly,
                   op, opsDone, current, other>>

\* the ERC-20 transfer(safeAddress, amount) write
TransferWrite ==
    /\ pc = "ta_write"
    /\ LET tx == PendingTx("transfer", WalletAccount, TokenAddress,
                           [to |-> loc.safeAddress, amount |-> loc.amount], Undefined)
       IN \/ /\ Accepts(tx)
             /\ txs' = Append(txs, tx)
             /\ loc' = [loc EXCEPT !.txHash = Len(txs) + 1]
             /\ obs' = [obs EXCEPT !.writes = Append(@, Len(txs) + 1)]
             /\ pc' = "ta_wait"
             /\ UNCHANGED result
          \/ /\ Throw(RejectedError)
             /\ UNCHANGED <<txs, loc, obs>>
    /\ UNCHANGED <<safes, roles, clock, config, lastSafeAddress, lastMultiSendCallOnly,
                   op, opsDone, current, other>>

\* TransferReceipt returning the hash without waiting for the receipt
TransferReceiptNoWait ==
    /\ pc = "ta_wait"
    /\ Return([NoValue EXCEPT !.transactionHash = loc.txHash])
    /\ UNCHANGED <<safes, roles, txs, clock, config, lastSafeAddress, lastMultiSendCallOnly,
                   op, loc, obs, opsDone, current, other>>

\* waitForTransactionReceipt and the return of the hash; the wrapper
\* onboardClient collects the hash and goes on to the next transfer or returns
\* (the k-th of params.tokenTransfers is a transfer of amount k)
TransferReceipt ==
    /\ pc = "ta_wait"
    /\ \/ /\ txs[loc.txHash].status = "pending"
          /\ Throw(TimeoutError)
          /\ UNCHANGED <<obs, loc>>
       \/ /\ txs[loc.txHash].status # "pending"
          /\ obs' = [obs EXCEPT !.awaited = Append(@, loc.txHash)]
          /\ IF op = "onboardClientSteps"
             THEN LET assetTransfers == Append(loc.assetTransfers, loc.txHash)
                  IN /\ loc' = [loc EXCEPT !.assetTransfers = assetTransfers,
                                           !.amount = Len(assetTransfers) + 1]
                     /\ IF Len(assetTransfers) < loc.tokenTransfers
                        THEN pc' = "ta_write" /\ UNCHANGED result
                        ELSE Return(DeploymentResult(loc, loc.rolesSetup, assetTransfers))
             ELSE /\ Return([NoValue EXCEPT !.transactionHash = loc.txHash])
                  /\ UNCHANGED loc
    /\ UNCHANGED <<safes, roles, txs, clock, config, lastSafeAddress, lastMultiSendCallOnly,
                   op, opsDone, current, other>>

\* ---------------------------------------------------------------- the chain
FirstPending ==
    IF \E i \in DOMAIN txs : txs[i].status = "pending"
    THEN CHOOSE i \in DOMAIN txs :
           /\ txs[i].status = "pending"
           /\ \A j \in 1..(i - 1) : txs[j].status # "pending"
    ELSE 0

\* the next pending transaction is mined: it takes effect as a whole, or it
\* reverts (its own failure, or out of gas) and changes nothing
Mine ==
    /\ FirstPending # 0
    /\ LET i == FirstPending
           after == ApplyTx(ChainState, txs[i])
       IN \/ /\ after.ok
             /\ safes' = after.safes
             /\ roles' = after.roles
             /\ txs' = [txs EXCEPT ![i].status = "success"]
          \/ /\ txs' = [txs EXCEPT ![i].status = "reverted"]
             /\ UNCHANGED <<safes, roles>>
    /\ UNCHANGED <<clock, config, lastSafeAddress, lastMultiSendCallOnly, op, pc, loc, obs,
                   result, opsDone, current, other>>

\* -------------------------------------------------------- the specification
Next ==
    \/ \E c \in ClientParams : CallDeploySafe(c)
    \/ \E s \in SafeParams, c \in ClientParams : CallSetPermissions(s, c)
    \/ \E s \in SafeParams : CallTransferAsset(s, 1)
    \/ \E c \in ClientParams : CallOnboardClient(c)
    \/ GetTransactionCount
    \/ DeploySafeWrite
    \/ DeploySafeReceipt
    \/ ResolveFeeConfig
    \/ PredictProxyAndBuildBatch
    \/ ReadSafeNonce
    \/ ReadTransactionHash
    \/ ExecuteWrite
    \/ ExecuteReceipt
    \/ TransferWrite
    \/ TransferReceipt
    \/ Mine

Spec == Init /\ [][Next]_vars

\* ------------------------------------------- the wrapper onboardClient
\* the caller onboards clients with the wrapper onboardClient and may call
\* setPermissions afterwards
StepsNext ==
    \/ \E c \in ClientParams, n \in 0..MaxTransfers : CallOnboardClientSteps(c, n)
    \/ \E s \in SafeParams, c \in ClientParams : CallSetPermissions(s, c)
    \/ DeploySafeWrite
    \/ DeploySafeReceipt
    \/ ResolveFeeConfig
    \/ PredictProxyAndBuildBatch
    \/ ReadSafeNonce
    \/ ReadTransactionHash
    \/ ExecuteWrite
    \/ ExecuteReceipt
    \/ TransferWrite
    \/ TransferReceipt
    \/ Mine

StepsSpec == Init /\ [][StepsNext]_vars

\* ------------------------------------------------- two callers, one client
\* two callers share one OnboardingClient; each onboards its own client with
\* deploySafe() followed by setPermissions(), and the event loop may pass from
\* one to the other at every await
ClientOf(caller) == IF caller = 1 THEN Undefined ELSE OtherClient

RunDeploySafe ==
    /\ opsDone = 0
    /\ CallDeploySafe(ClientOf(current))

RunSetPermissions ==
    /\ op = "deploySafe"
    /\ result.status = "ok"
    /\ CallSetPermissions(Undefined, ClientOf(current))

Switch ==
    /\ current' = 3 - current
    /\ other' = Context(op, pc, loc, obs, result, opsDone)
    /\ op' = other.op
    /\ pc' = other.pc
    /\ loc' = other.loc
    /\ obs' = other.obs
    /\ result' = other.result
    /\ opsDone' = other.opsDone
    /\ UNCHANGED <<safes, roles, txs, clock, config, lastSafeAddress, lastMultiSendCallOnly>>

ConcNext ==
    \/ RunDeploySafe
    \/ RunSetPermissions
    \/ DeploySafeWrite
    \/ DeploySafeReceipt
    \/ ResolveFeeConfig
    \/ PredictProxyAndBuildBatch
    \/ ReadSafeNonce
    \/ ReadTransactionHash
    \/ ExecuteWrite
    \/ ExecuteReceipt
    \/ Mine
    \/ Switch

\* the client createOnboardingClientFromEnv constructs: no salt nonce and no
\* feeConfigFetcher configured
ConcInit ==
    /\ Init
    /\ config = [safeSaltNonce |-> Undefined, rolesSaltNonce |-> Undefined,
                 feeConfigFetcher |-> FALSE, account |-> TRUE]

ConcSpec == ConcInit /\ [][ConcNext]_vars

\* --------------------------------------- safe.ts deploySafe called directly
\* resolveDeploymentAddress: nothing without a record, else the address on
\* the current chain, else the default address
resolveDeploymentAddress(deployment) ==
    IF ~deployment.found THEN Undefined
    ELSE IF deployment.networkAddress # Undefined THEN deployment.networkAddress
    ELSE deployment.defaultAddress

\* ResolveAddress looking at the deployment record first
ResolveAddressRecordFirst(override, deployment) ==
    IF resolveDeploymentAddress(deployment) # Undefined
    THEN resolveDeploymentAddress(deployment)
    ELSE override

\* override ? getAddress(override) : resolveDeploymentAddress(deployment)
ResolveAddress(override, deployment) ==
    IF override # Undefined THEN override ELSE resolveDeploymentAddress(deployment)

\* deploySafe from its first statement to the initializer: the account is
\* tested, the three addresses are resolved (the singleton from
\* getSafeL2SingletonDeployment ?? getSafeSingletonDeployment), a missing
\* singleton or factory is thrown
ResolveAddresses ==
    /\ pc = "ds_resolve"
    /\ LET resolvedSingleton ==
             ResolveAddress(loc.overrides.singleton,
                            IF loc.deployments.singletonL2.found
                            THEN loc.deployments.singletonL2
                            ELSE loc.deployments.singleton)
           resolvedFactory == ResolveAddress(loc.overrides.factory, loc.deployments.factory)
           resolvedMultiSend ==
             ResolveAddress(loc.overrides.multiSend, loc.deployments.multiSend)
       IN IF ~config.account
          THEN /\ Throw(WalletAccountError)
               /\ UNCHANGED loc
          ELSE IF resolvedSingleton = Undefined
          THEN /\ Throw(MkError("Error", MsgNoSingleton))
               /\ loc' = [loc EXCEPT !.singletonAddress = Undefined,
                                     !.factoryAddress = Undefined]
          ELSE IF resolvedFactory = Undefined
          THEN /\ Throw(MkError("Error", MsgNoFactory))
               /\ loc' = [loc EXCEPT !.singletonAddress = resolvedSingleton,
                                     !.factoryAddress = Undefined]
          ELSE /\ loc' = [loc EXCEPT !.singletonAddress = resolvedSingleton,
                                     !.factoryAddress = resolvedFactory,
                                     !.multiSendCallOnly = resolvedMultiSend]
               /\ pc' = "ds_write"
               /\ UNCHANGED result
    /\ UNCHANGED <<safes, roles, txs, clock, config, lastSafeAddress, lastMultiSendCallOnly,
                   op, obs, opsDone, current, other>>

\* deploySafe has been called with the wallet account as owner, some
\* overrides, and some records of the deployments package for the chain
DirectInit ==
    /\ safes = <<>>
    /\ roles = <<>>
    /\ txs = <<>>
    /\ clock = 0
    /\ config \in { c \in Configs : ~c.feeConfigFetcher /\ c.rolesSaltNonce = Undefined }
    /\ lastSafeAddress = Undefined
    /\ lastMultiSendCallOnly = Undefined
    /\ op = "deploySafeContract"
    /\ pc = "ds_resolve"
    /\ \E overrides \in
            [singleton : {Undefined, CustomSingleton}, factory : {Undefined, CustomFactory},
             multiSend : {Undefined, SAFE_MULTI_SEND_CALL_ONLY_ADDRESS}],
          deployments \in
            [singletonL2 : {NoDeployment, Deployment(SafeL2Singleton, SafeL2Singleton),
                            Deployment(Undefined, Undefined)},
             singleton : {NoDeployment,
                          Deployment(SAFE_SINGLETON_ADDRESS, SAFE_SINGLETON_ADDRESS),
                          Deployment(Undefined, SAFE_SINGLETON_ADDRESS),
                          Deployment(Undefined, Undefined)},
             factory : {NoDeployment,
                        Deployment(SAFE_PROXY_FACTORY_ADDRESS, SAFE_PROXY_FACTORY_ADDRESS),
                        Deployment(Undefined, SAFE_PROXY_FACTORY_ADDRESS),
                        Deployment(Undefined, Undefined)},
             multiSend : {NoDeployment, Deployment(SAFE_MULTI_SEND_CALL_ONLY_ADDRESS,
                                                SAFE_MULTI_SEND_CALL_ONLY_ADDRESS)}] :
         loc = [LocInit EXCEPT !.clientAddress = WalletAccount,
                               !.overrides = overrides,
                               !.deployments = deployments,
                               !.singletonAddress = Undefined,
                               !.factoryAddress = Undefined]
    /\ obs = ObsInit
    /\ result = NoResult
    /\ opsDone = 1
    /\ current = 1
    /\ other = Suspended

\* safe.ts executeSafeTransaction called directly for a Safe with a prepared
\* transaction, with or without a nonce manager
CallExecuteSafeTransaction(safeParam, transaction, nonceManaged) ==
    /\ StartOp("executeSafeTransaction")
    /\ LET managed == IF nonceManaged THEN Len(txs) ELSE Undefined
       IN loc' = [LocInit EXCEPT
                    !.safeAddress = safeParam,
                    !.nonce = transaction.nonce,
                    !.nextNonce = managed,
                    !.pendingCount = managed,
                    !.preparedTx = transaction]
    /\ pc' = "exec_write"
    /\ result' = NoResult
    /\ UNCHANGED <<safes, roles, txs, clock, config, lastSafeAddress, lastMultiSendCallOnly>>

\* the prepared transactions a direct caller holds: a multiSend of no calls,
\* prepared for the Safe or for another address, at the counter the Safe
\* holds or at another one
DirectNext ==
    \/ \E s \in {NotASafe} \cup DOMAIN safes, preparedFor \in {NotASafe} \cup DOMAIN safes,
          counter \in 0..1, m \in BOOLEAN :
         CallExecuteSafeTransaction(
           s,
           PreparedSafeTransaction(preparedFor, SAFE_MULTI_SEND_CALL_ONLY_ADDRESS,
                                   MultiSendData(<<>>), 0, OperationDelegateCall, counter),
           m)
    \/ ResolveAddresses
    \/ DeploySafeWrite
    \/ DeploySafeReceipt
    \/ ExecuteWrite
    \/ ExecuteReceipt
    \/ Mine

DirectSpec == DirectInit /\ [][DirectNext]_vars

\* ------------------------------------------ the wrapper against its steps
Replaying == other.op = "firstRun"

\* the first run: one onboardClient, either variant, on the initial chain
RunOnboardClientSteps ==
    /\ ~Replaying
    /\ opsDone = 0
    /\ \E c \in ClientParams, n \in 0..MaxTransfers : CallOnboardClientSteps(c, n)

RunOnboardClient ==
    /\ ~Replaying
    /\ opsDone = 0
    /\ \E c \in ClientParams : CallOnboardClient(c)

\* the first run has returned: what it wrote, what it returned and what it
\* was given are kept to compare the second run with, and a second client is
\* constructed with the same configuration on the same initial chain and
\* clock, to be driven step by step as scripts/demo.mjs does
Replay ==
    /\ ~Replaying
    /\ op \in {"onboardClientSteps", "onboardClient"}
    /\ pc = "idle"
    /\ result.status = "ok"
    /\ other' = [op |-> "firstRun", txs |-> txs, value |-> result.value,
                 clientParam |-> IF loc.clientAddress = WalletAccount THEN Undefined
                                 ELSE loc.clientAddress,
                 tokenTransfers |-> loc.tokenTransfers, feeAnswer |-> loc.feeAnswer]
    /\ safes' = <<>>
    /\ roles' = <<>>
    /\ txs' = <<>>
    /\ clock' = 0
    /\ lastSafeAddress' = Undefined
    /\ lastMultiSendCallOnly' = Undefined
    /\ op' = "none"
    /\ pc' = "idle"
    /\ loc' = LocInit
    /\ obs' = ObsInit
    /\ result' = NoResult
    /\ opsDone' = MaxOps - (2 + loc.tokenTransfers)
    /\ UNCHANGED <<config, current>>

\* the token transfers a run has written so far
TransfersWritten == Cardinality({ i \in DOMAIN txs : txs[i].kind = "transfer" })

StepDeploySafe ==
    /\ Replaying
    /\ op = "none"
    /\ CallDeploySafe(other.clientParam)

StepSetPermissions ==
    /\ Replaying
    /\ op = "deploySafe"
    /\ result.status = "ok"
    /\ CallSetPermissions(result.value.safeAddress, other.clientParam)

StepTransferAsset ==
    /\ Replaying
    /\ op \in {"setPermissions", "transferAsset"}
    /\ result.status = "ok"
    /\ TransfersWritten < other.tokenTransfers
    /\ CallTransferAsset(Undefined, TransfersWritten + 1)

\* the fee source answers the second run as it answered the first
ResolveFeeConfigAsBefore ==
    /\ ResolveFeeConfig
    /\ Replaying => loc'.feeAnswer = other.feeAnswer

EquivNext ==
    \/ RunOnboardClientSteps
    \/ RunOnboardClient
    \/ Replay
    \/ StepDeploySafe
    \/ StepSetPermissions
    \/ StepTransferAsset
    \/ GetTransactionCount
    \/ DeploySafeWrite
    \/ DeploySafeReceipt
    \/ ResolveFeeConfigAsBefore
    \/ PredictProxyAndBuildBatch
    \/ ReadSafeNonce
    \/ ReadTransactionHash
    \/ ExecuteWrite
    \/ ExecuteReceipt
    \/ TransferWrite
    \/ TransferReceipt
    \/ Mine

EquivSpec == Init /\ [][EquivNext]_vars

\* ------------------------------------------------- the batcher on its own
\* the ordered lists of at most n calls; a call has either operation, one of
\* two targets, a zero or a non-zero value, and a payload that is empty, a
\* selector with an argument, or words that read like the head of another call
RECURSIVE CallLists(_)
CallLists(n) ==
    IF n = 0 THEN {<<>>}
    ELSE LET shorter == CallLists(n - 1)
             calls == { MkCall(to, value, data, operation) :
                          to \in {P2P_ADDRESS, MODULE_PROXY_FACTORY_ADDRESS},
                          value \in {0, 1},
                          data \in {<<>>, <<SelEnableModule, ROLES_MASTER_COPY_ADDRESS>>,
                                    <<OperationCall, P2P_ADDRESS, 0, 0>>},
                          operation \in {OperationCall, OperationDelegateCall} }
         IN shorter \cup { Append(l, c) : l \in { x \in shorter : Len(x) = n - 1 },
                                          c \in calls }

BatchInit ==
    /\ safes = <<>>
    /\ roles = <<>>
    /\ txs = <<>>
    /\ clock = 0
    /\ config = [safeSaltNonce |-> Undefined, rolesSaltNonce |-> Undefined,
                 feeConfigFetcher |-> FALSE, account |-> TRUE]
    /\ lastSafeAddress = Undefined
    /\ lastMultiSendCallOnly = Undefined
    /\ op = "none"
    /\ pc = "batch_encode"
    /\ \E calls \in CallLists(MaxCalls) : loc = [LocInit EXCEPT !.batchedCalls = calls]
    /\ obs = ObsInit
    /\ result = NoResult
    /\ opsDone = 0
    /\ current = 1
    /\ other = Suspended

\* encodeMultiSendCallData(batchedCalls)
EncodeBatch ==
    /\ pc = "batch_encode"
    /\ loc' = [loc EXCEPT !.encodedTransactions = encodeMultiSendCallData(loc.batchedCalls)]
    /\ pc' = "batch_decode"
    /\ UNCHANGED <<safes, roles, txs, clock, config, lastSafeAddress, lastMultiSendCallOnly,
                   op, obs, result, opsDone, current, other>>

\* the payload is parsed as multiSend parses it
DecodeBatch ==
    /\ pc = "batch_decode"
    /\ loc' = [loc EXCEPT !.decodedCalls = DecodeMultiSend(loc.encodedTransactions)]
    /\ pc' = "batch_done"
    /\ UNCHANGED <<safes, roles, txs, clock, config, lastSafeAddress, lastMultiSendCallOnly,
                   op, obs, result, opsDone, current, other>>

BatchNext == EncodeBatch \/ DecodeBatch

BatchSpec == BatchInit /\ [][BatchNext]_vars

\* ------------------------------------------------ normalizeTokenAmount alone
\* the digits amount strings are written with, and their values
DigitOf == ("0" :> 0) @@ ("1" :> 1) @@ ("7" :> 7) @@ ("a" :> 10) @@ ("b" :> 11)

\* one or more digits of a radix
DigitsIn(chars, radix) ==
    /\ chars # <<>>
    /\ \A i \in DOMAIN chars : chars[i] \in DOMAIN DigitOf /\ DigitOf[chars[i]] < radix

\* the value of a digit string in a radix
RECURSIVE DigitsValue(_, _)
DigitsValue(chars, radix) ==
    IF chars = <<>> THEN 0
    ELSE DigitsValue(SubSeq(chars, 1, Len(chars) - 1), radix) * radix
           + DigitOf[chars[Len(chars)]]

\* String.prototype.trim
Trim(chars) ==
    LET kept == { i \in DOMAIN chars : chars[i] # " " }
    IN IF kept = {} THEN <<>>
       ELSE SubSeq(chars, CHOOSE i \in kept : \A j \in kept : i <= j,
                          CHOOSE i \in kept : \A j \in kept : i >= j)

\* BigInt(string) of ECMAScript (StringToBigInt): the text is trimmed; the
\* empty text is 0n; decimal digits with an optional minus sign, 0x with hex
\* digits and 0b with binary digits are read in their radix; any other text
\* makes BigInt throw a SyntaxError
StringToBigInt(chars) ==
    LET text == Trim(chars)
        rest == SubSeq(text, 3, Len(text))
    IN IF text = <<>>
       THEN AmountOutcome(NoError, <<0, 0>>, FALSE)
       ELSE IF DigitsIn(text, 10)
       THEN AmountOutcome(NoError, <<DigitsValue(text, 10), 0>>, FALSE)
       ELSE IF text[1] = "-" /\ DigitsIn(Tail(text), 10)
       THEN AmountOutcome(NoError, <<0 - DigitsValue(Tail(text), 10), 0>>, FALSE)
       ELSE IF Len(text) > 2 /\ text[1] = "0" /\ text[2] = "x" /\ DigitsIn(rest, 16)
       THEN AmountOutcome(NoError, <<DigitsValue(rest, 16), 0>>, FALSE)
       ELSE IF Len(text) > 2 /\ text[1] = "0" /\ text[2] = "b" /\ DigitsIn(rest, 2)
       THEN AmountOutcome(NoError, <<DigitsValue(rest, 2), 0>>, FALSE)
       ELSE AmountOutcome(MkError("SyntaxError", "Cannot convert to a BigInt"), <<0, 0>>, FALSE)

\* OnboardingClient.normalizeTokenAmount; for the double mantissa * 2^exp2
\* (exp2 is -1, 0 or 53) isInteger is Number.isFinite and Number.isInteger,
\* isSafeInteger is Number.isSafeInteger (magnitude at most 2^53 - 1), matches
\* is /^(0x)?[0-9a-fA-F]+$/.test(normalized)
normalizeTokenAmount(amount) ==
    LET isInteger == amount.class = "finite" /\ (amount.exp2 >= 0 \/ amount.mantissa % 2 = 0)
        isSafeInteger == isInteger /\ (amount.exp2 <= 0 \/ amount.mantissa = 0)
        bigIntOfNumber == IF amount.mantissa = 0 THEN <<0, 0>>
                          ELSE IF amount.exp2 < 0 THEN <<amount.mantissa \div 2, 0>>
                          ELSE <<amount.mantissa, amount.exp2>>
        normalized == Trim(amount.chars)
        matches == \/ DigitsIn(normalized, 16)
                   \/ /\ Len(normalized) > 2
                      /\ normalized[1] = "0" /\ normalized[2] = "x"
                      /\ DigitsIn(SubSeq(normalized, 3, Len(normalized)), 16)
    IN IF amount.kind = "bigint"
       THEN AmountOutcome(NoError, <<amount.mantissa, 0>>, FALSE)
       ELSE IF amount.kind = "number"
       THEN IF ~isInteger
            THEN AmountOutcome(MkError("Error", "Token transfer amount must be an integer"),
                               <<0, 0>>, FALSE)
            ELSE AmountOutcome(NoError, bigIntOfNumber, ~isSafeInteger)
       ELSE IF amount.kind = "string"
       THEN IF normalized = <<>>
            THEN AmountOutcome(MkError("Error", "Token transfer amount cannot be empty"),
                               <<0, 0>>, FALSE)
            ELSE IF ~matches
            THEN AmountOutcome(MkError("Error", "Token transfer amount must be a numeric string"),
                               <<0, 0>>, FALSE)
            ELSE StringToBigInt(normalized)
       ELSE AmountOutcome(
              MkError("Error", "Token transfer amount must be a bigint, number, or numeric string"),
              <<0, 0>>, FALSE)

\* the strings of at most n characters
RECURSIVE AmountStrings(_)
AmountStrings(n) ==
    IF n = 0 THEN {<<>>}
    ELSE LET shorter == AmountStrings(n - 1)
         IN shorter \cup { Append(s, c) : s \in { x \in shorter : Len(x) = n - 1 },
                                          c \in DOMAIN DigitOf \cup {" ", "x", ".", "-"} }

\* normalizeTokenAmount is about to be called with an amount
AmountInit ==
    /\ safes = <<>>
    /\ roles = <<>>
    /\ txs = <<>>
    /\ clock = 0
    /\ config = [safeSaltNonce |-> Undefined, rolesSaltNonce |-> Undefined,
                 feeConfigFetcher |-> FALSE, account |-> TRUE]
    /\ lastSafeAddress = Undefined
    /\ lastMultiSendCallOnly = Undefined
    /\ op = "normalizeTokenAmount"
    /\ pc = "amount_normalize"
    /\ \E amount \in
            { AmountInput("bigint", "", m, 0, <<>>) : m \in (0 - MaxChars)..MaxChars }
              \cup { AmountInput("number", "finite", m, e, <<>>) :
                       m \in (0 - MaxChars)..MaxChars, e \in {0 - 1, 0, 53} }
              \cup { AmountInput("number", class, 0, 0, <<>>) : class \in {"NaN", "Infinity"} }
              \cup { AmountInput("string", "", 0, 0, chars) : chars \in AmountStrings(MaxChars) }
              \cup { AmountInput("undefined", "", 0, 0, <<>>) } :
         loc = [LocInit EXCEPT !.amountParam = amount]
    /\ obs = ObsInit
    /\ result = NoResult
    /\ opsDone = 0
    /\ current = 1
    /\ other = Suspended

\* normalizeTokenAmount(amount) returns or throws
NormalizeAmount ==
    /\ pc = "amount_normalize"
    /\ LET outcome == normalizeTokenAmount(loc.amountParam)
       IN /\ loc' = [loc EXCEPT !.normalized = outcome]
          /\ IF outcome.error # NoError THEN Throw(outcome.error) ELSE Return(NoValue)
    /\ UNCHANGED <<safes, roles, txs, clock, config, lastSafeAddress, lastMultiSendCallOnly,
                   op, obs, opsDone, current, other>>

AmountSpec == AmountInit /\ [][NormalizeAmount]_vars

\* ---------------------------------------------------------------- claims
Selectors(calls) == [i \in DOMAIN calls |-> calls[i].data[1]]

CallsWith(calls, selector) == { i \in DOMAIN calls : calls[i].data[1] = selector }

ModulesOf(sf, s) == IF s \in DOMAIN sf THEN sf[s].modules ELSE {}

ExecWrites == { i \in DOMAIN obs.writes : txs[obs.writes[i]].kind = "exec" }

\* the batch a submitted execTransaction carries, as the chain will parse it
BatchOf(tx) == DecodeMultiSend(SubSeq(tx.args.tx.data, 3, Len(tx.args.tx.data)))

\* the proxy addresses the factory can predict for a Safe
ProxiesOf(safeAddress) ==
    { PredictP2pYieldProxyAddress(safeAddress, fee[1], fee[2]) :
        fee \in {DefaultFeeConfig, OtherFeeConfig} }

\* C1: every batch that is built scopes the role to exactly two (target,
\* selector) pairs, the fee-router factory with deposit and the predicted proxy
\* with withdraw, and holds no whole-target allow and no parameter condition;
\* so does every Roles modifier on chain.
C1_ExactlyTwoSelectorScopes ==
    /\ loc.batchedCalls # <<>> =>
         LET calls == loc.batchedCalls
             scopes == CallsWith(calls, SelAllowFunction)
         IN /\ Cardinality(scopes) = 2
            /\ { <<calls[i].to, calls[i].data[2], calls[i].data[3], calls[i].data[4]>> :
                   i \in scopes }
                 = { <<loc.rolesAddress, DEFAULT_ROLE_KEY,
                       P2P_SUPERFORM_PROXY_FACTORY_ADDRESS, SelDeposit>>,
                     <<loc.rolesAddress, DEFAULT_ROLE_KEY,
                       loc.predictedProxyAddress, SelWithdraw>> }
            /\ CallsWith(calls, SelAllowTarget) = {}
            /\ CallsWith(calls, SelScopeFunction) = {}
    /\ \A m \in DOMAIN roles :
         /\ roles[m].targets = {}
         /\ roles[m].conditions = {}
         /\ \E proxy \in ProxiesOf(roles[m].avatar) :
              roles[m].functions
                = { <<DEFAULT_ROLE_KEY, P2P_SUPERFORM_PROXY_FACTORY_ADDRESS, SelDeposit>>,
                    <<DEFAULT_ROLE_KEY, proxy, SelWithdraw>> }

C1_Witness == \E m \in DOMAIN roles : Cardinality(roles[m].functions) = 2

ModuleConfigured(r, m) ==
    /\ m \in DOMAIN r
    /\ <<P2P_ADDRESS, DEFAULT_ROLE_KEY>> \in r[m].members
    /\ <<DEFAULT_ROLE_KEY, P2P_SUPERFORM_PROXY_FACTORY_ADDRESS, SelDeposit>> \in r[m].functions
    /\ \E f \in r[m].functions : f[1] = DEFAULT_ROLE_KEY /\ f[3] = SelWithdraw

C4_BatchOrder ==
    loc.batchedCalls # <<>> =>
      LET b == loc.batchedCalls
      IN /\ b[1] = loc.deploymentCall
         /\ b[1].data[1] = SelDeployModule
         /\ SubSeq(b, 2, Len(b) - 1) = loc.permissionCalls
         /\ b[Len(b)].to = loc.safeAddress
         /\ b[Len(b)].data = <<SelEnableModule, loc.rolesAddress>>
         /\ DecodeMultiSend(loc.encodedTransactions) = b

C4_Witness == pc = "exec_wait" /\ op = "onboardClient"

\* C5: an operation that returns a result has no write that reverted on
\* chain: every transaction it submitted succeeded.
C5_NoSuccessForFailedMutation ==
    result.status = "ok" =>
      \A i \in DOMAIN obs.writes : txs[obs.writes[i]].status = "success"

\* C6: whenever the approved-hash signature has been built for a Safe that is
\* on chain, the address in the signature is the one owner of that Safe and
\* the threshold is 1.
C6_SignerIsSoleOwner ==
    (loc.signature # <<>> /\ loc.safeAddress \in DOMAIN safes) =>
      /\ safes[loc.safeAddress].owners = {AddressOfWord(SubSeq(loc.signature, 1, 32))}
      /\ safes[loc.safeAddress].threshold = 1

\* a failure carries the transient "returned no data" signature
TransientSignature(error) ==
    /\ error.type \in {"Error", "string"}
    /\ \/ error.name = ZeroDataName
       \/ IncludesZeroDataName(error.message)
       \/ IncludesReturnedNoData(error.message)

\* the counter read threw to the caller of prepareSafeTransaction
CounterReadThrew == result.status = "error" /\ result.at = "prep_nonce"

\* C7: a counter read that succeeds after k transient failures is read number
\* k + 1 (the third after two failures) and yields the Safe's counter, which
\* is the counter of the prepared transaction; a transient failure is thrown
\* only by the third read, as the named error, with no digest read issued.
C7_BoundedRetry ==
    [][ /\ (pc = "prep_nonce" /\ pc' = "prep_hash") =>
             /\ loc'.nonce = safes[loc.safeAddress].nonce
             /\ obs'.counterReads = loc.attempt + 1
             /\ loc.attempt = 2 => obs'.counterReads = 3
        /\ (pc = "prep_hash" /\ pc' = "exec_write") => loc'.preparedTx.nonce = loc.nonce
        /\ (pc = "prep_nonce" /\ result'.status = "error" /\ TransientSignature(loc'.rawError)) =>
             /\ obs'.counterReads = 3
             /\ obs'.digestReads = 0
             /\ result'.error.type = "Error"
             /\ result'.error.name = ZeroDataName
      ]_vars

C7_Witness == pc = "exec_wait" /\ loc.attempt = 2 /\ obs.counterReads = 3

\* C8: a counter-read failure without the transient signature is thrown as it
\* is by the read that met it: no read follows it (the reads are the earlier
\* transient failures plus this one, one read when it is the first) and no
\* digest read is issued.
C8_OtherFailureNotRetried ==
    (CounterReadThrew /\ loc.rawError # NoError /\ ~TransientSignature(loc.rawError)) =>
      /\ result.error = loc.rawError
      /\ obs.counterReads = loc.attempt + 1
      /\ loc.attempt = 0 => obs.counterReads = 1
      /\ obs.digestReads = 0

C8_Witness ==
    /\ CounterReadThrew
    /\ loc.rawError # NoError
    /\ ~TransientSignature(loc.rawError)
    /\ obs.counterReads = 1

\* C9: the error thrown once the retries are exhausted differs from the raw
\* transient error the last read threw.
C9_EscalatedDiffersFromRaw ==
    (CounterReadThrew /\ TransientSignature(loc.rawError)) => result.error # loc.rawError

\* C10: an execTransaction is written only for a transaction whose counter
\* was read, whose digest was computed from that counter and which carries
\* the signature built for it; nothing is written or signed before the digest
\* read; and the hash is returned only once its receipt has been awaited.
C10_Lifecycle ==
    /\ pc \in {"sp_fee", "sp_predict", "prep_nonce"} =>
         loc.nonce = Undefined /\ loc.preparedTx = NoTx
    /\ pc \in {"sp_fee", "sp_predict", "prep_nonce", "prep_hash", "exec_write"} =>
         loc.signature = <<>> /\ ExecWrites = {}
    /\ pc = "prep_hash" => loc.nonce # Undefined /\ loc.preparedTx = NoTx
    /\ \A i \in ExecWrites :
         LET tx == txs[obs.writes[i]]
         IN /\ obs.counterReads >= 1
            /\ obs.digestReads = 1
            /\ loc.nonce # Undefined
            /\ loc.preparedTx.nonce = loc.nonce
            /\ loc.preparedTx.hash =
                 TransactionHash(tx.to, tx.args.tx.to, tx.args.tx.value, tx.args.tx.data,
                                 tx.args.tx.operation, 0, 0, 0, ZeroAddress, ZeroAddress,
                                 loc.nonce)
            /\ loc.signature # <<>>
            /\ tx.args.signature = loc.signature
    /\ (result.status = "ok" /\ op \in {"setPermissions", "onboardClient"}) =>
         LET hash == IF op = "setPermissions" THEN result.value.transactionHash
                     ELSE result.value.rolesSetup
         IN /\ \E i \in ExecWrites : obs.writes[i] = hash
            /\ \E i \in DOMAIN obs.awaited : obs.awaited[i] = hash
            /\ txs[hash].status # "pending"

C10_Witness == result.status = "ok" /\ op = "onboardClient" /\ obs.counterReads = 2

\* C11: one executeSafeTransaction writes at most one execTransaction and
\* waits for that one: the write step adds one transaction or throws and adds
\* none; from the wait no transaction is added and the write is never gone
\* back to; a wait that fails on a still-pending transaction throws to the
\* caller; an operation never has two execTransaction writes.
C11_SingleSubmission ==
    [][ /\ pc = "exec_write" =>
             /\ Len(txs') <= Len(txs) + 1
             /\ pc' \in {"exec_write", "exec_wait", "idle"}
             /\ pc' = "exec_wait" =>
                  /\ Len(txs') = Len(txs) + 1
                  /\ txs'[Len(txs')].kind = "exec"
                  /\ loc'.txHash = Len(txs')
             /\ pc' = "idle" => (result'.status = "error" /\ txs' = txs)
        /\ pc = "exec_wait" =>
             /\ Len(txs') = Len(txs)
             /\ pc' # "exec_write"
             /\ (pc' # "exec_wait" /\ txs[loc.txHash].status = "pending") =>
                  /\ pc' = "idle"
                  /\ result'.status = "error"
                  /\ result'.error = TimeoutError
             /\ (pc' # "exec_wait" /\ result'.status # "error") =>
                  obs'.awaited = Append(obs.awaited, loc.txHash)
        /\ Cardinality({ i \in DOMAIN obs'.writes : txs'[obs'.writes[i]].kind = "exec" }) <= 1
      ]_vars

C11_Witness ==
    /\ result.status = "error"
    /\ result.at = "exec_wait"
    /\ Cardinality(ExecWrites) = 1
    /\ txs[loc.txHash].status = "pending"

\* C12: in a nonce-managed onboardClient of a wallet with an account the
\* pending transaction count is read once; the counter starts at the value n read, equal to the chain's count;
\* the Safe deployment is written with nonce n and the setup transaction with
\* n + 1; consumeNonce hands out the counter and moves it by one, so two
\* calls in a row hand out consecutive values; peekNonce shows the counter and
\* leaves it as it is.
C12_NonceReadOnce ==
    op = "onboardClient" =>
      /\ obs.countReads <= 1
      /\ (pc # "ob_count" /\ result.error # WalletAccountError) => obs.countReads = 1
      /\ loc.pendingCount # Undefined =>
           /\ loc.pendingCount = Len(txs) - Len(obs.writes)
           /\ pc = "ds_write" => loc.nextNonce = loc.pendingCount
           /\ pc \in {"ds_wait", "sp_fee", "sp_predict", "prep_nonce", "prep_hash", "exec_write"} =>
                loc.nextNonce = loc.pendingCount + 1
           /\ pc = "exec_wait" => loc.nextNonce = loc.pendingCount + 2
           /\ Len(obs.writes) <= 2
           /\ \A i \in DOMAIN obs.writes :
                /\ txs[obs.writes[i]].nonce = loc.pendingCount + i - 1
                /\ txs[obs.writes[i]].kind = IF i = 1 THEN "createProxy" ELSE "exec"
      /\ loc.nextNonce # Undefined =>
           LET first == ConsumeNonce(loc.nextNonce)
               second == ConsumeNonce(first.nextNonce)
               peek == PeekNonce(first.nextNonce)
           IN /\ first.txNonce = loc.nextNonce
              /\ second.txNonce = first.txNonce + 1
              /\ peek.txNonce = first.nextNonce
              /\ peek.nextNonce = first.nextNonce
              /\ ConsumeNonce(peek.nextNonce) = second

C12_Witness ==
    /\ op = "onboardClient"
    /\ pc = "exec_wait"
    /\ loc.pendingCount = 1
    /\ txs[obs.writes[1]].nonce = 1
    /\ txs[obs.writes[2]].nonce = 2

\* C13: an operation's writes are awaited in the order they were written and
\* at most the last one is not yet awaited, so a write is issued only after
\* the receipt of every earlier write of the operation came back; an awaited
\* transaction is no longer pending; an operation that returns has awaited
\* all its writes; the wrapper's writes are the deployment, the setup, then
\* the transfers.
C13_WritesInSequence ==
    /\ Len(obs.awaited) <= Len(obs.writes)
    /\ Len(obs.writes) - Len(obs.awaited) <= 1
    /\ obs.awaited = SubSeq(obs.writes, 1, Len(obs.awaited))
    /\ \A k \in DOMAIN obs.awaited : txs[obs.awaited[k]].status # "pending"
    /\ \A i, j \in DOMAIN obs.writes : i < j => obs.writes[i] < obs.writes[j]
    /\ result.status = "ok" => obs.awaited = obs.writes
    /\ op = "onboardClientSteps" =>
         \A i \in DOMAIN obs.writes :
           txs[obs.writes[i]].kind
             = IF i = 1 THEN "createProxy" ELSE IF i = 2 THEN "exec" ELSE "transfer"

C13_Witness ==
    /\ op = "onboardClientSteps"
    /\ result.status = "ok"
    /\ Len(obs.writes) = 3
    /\ txs[obs.writes[3]].kind = "transfer"

\* C14: with two callers that each onboard their own client through the same
\* OnboardingClient, a caller's setPermissions acts on the Safe that belongs
\* to that caller's client, whatever the other caller did in between.
C14_RunsIndependent ==
    (op = "setPermissions" /\ loc.safeAddress \in DOMAIN safes) =>
      safes[loc.safeAddress].owners = {loc.clientAddress}

\* C15: when the wrapper onboardClient has finished with its Safe deployment
\* mined successfully and its setup transaction reverted, the caller got an
\* error, and the Safe is on chain with no module enabled.
C15_SetupFailureRaised ==
    ( /\ op = "onboardClientSteps"
      /\ pc = "idle"
      /\ Len(obs.writes) >= 2
      /\ txs[obs.writes[1]].status = "success"
      /\ txs[obs.writes[2]].status = "reverted" ) =>
      /\ result.status = "error"
      /\ loc.safeAddress \in DOMAIN safes
      /\ safes[loc.safeAddress].modules = {}

\* C16: a setPermissions for a Safe that an earlier setup has already
\* configured (a module is enabled on it) and that the wallet account owns
\* reaches its write with a transaction the chain accepts: the setup before
\* it is no reason for it to fail; and the transaction it prepared carries the
\* Safe's counter as read and the digest for it.
C16_SecondSetupNotRefused ==
    ( /\ op = "setPermissions"
      /\ pc = "exec_write"
      /\ loc.safeAddress \in DOMAIN safes
      /\ safes[loc.safeAddress].owners = {WalletAccount}
      /\ safes[loc.safeAddress].modules # {} ) =>
      /\ loc.preparedTx.nonce = loc.nonce
      /\ loc.preparedTx.hash =
           TransactionHash(loc.safeAddress, loc.multiSendCallOnly,
                           0, MultiSendData(loc.encodedTransactions),
                           OperationDelegateCall, 0, 0, 0, ZeroAddress, ZeroAddress, loc.nonce)
      /\ ApplyTx(ChainState,
                 PendingTx("exec", WalletAccount, loc.safeAddress,
                           ExecArgs(loc.preparedTx, ApprovedHashSignature(WalletAccount)),
                           Undefined)).ok

\* C17: whenever a Safe deployment is about to be written, the chain accepts
\* it: the address it creates is not taken by a Safe created earlier, with
\* or without a configured salt nonce; and every successful deployment has
\* its own Safe.
C17_FreshAccountEachTime ==
    /\ pc = "ds_write" =>
         ApplyTx(ChainState,
                 PendingTx("createProxy", WalletAccount, SAFE_PROXY_FACTORY_ADDRESS,
                           [singleton |-> SAFE_SINGLETON_ADDRESS,
                            initializer |-> SafeInitializer(loc.clientAddress),
                            saltNonce |-> SaltOrGenerated(config.safeSaltNonce)],
                           Undefined)).ok
    /\ Cardinality(DOMAIN safes)
         = Cardinality({ i \in DOMAIN txs :
                           txs[i].kind = "createProxy" /\ txs[i].status = "success" })

\* the logs of a receipt that the factory emitted and that decode to ProxyCreation
FactoryCreations(receipt) ==
    { i \in DOMAIN receipt.logs :
        /\ receipt.logs[i].address = SAFE_PROXY_FACTORY_ADDRESS
        /\ receipt.logs[i].eventName = "ProxyCreation" }

\* C18: when deploySafe has finished on a receipt, the address it returns is
\* the proxy of the first ProxyCreation event the factory emitted, logs of
\* other addresses and logs that do not decode notwithstanding; with no such
\* event it is the receipt's contractAddress; with neither, deploySafe throws
\* the proxy-creation error and returns nothing.
C18_AddressFromReceipt ==
    (result.at = "ds_wait" /\ loc.receipt # NoReceipt) =>
      LET receipt == loc.receipt
          events == FactoryCreations(receipt)
          first == CHOOSE i \in events : \A j \in events : i <= j
      IN IF events # {}
         THEN /\ result.status = "ok"
              /\ result.value.safeAddress = receipt.logs[first].proxy
         ELSE IF receipt.contractAddress # Undefined
         THEN /\ result.status = "ok"
              /\ result.value.safeAddress = receipt.contractAddress
         ELSE /\ result.status = "error"
              /\ result.error = MkError("Error", MsgNoProxyCreation)
              /\ result.value = NoValue

C18_Witness ==
    /\ result.at = "ds_wait"
    /\ result.status = "ok"
    /\ Len(loc.receipt.logs) = 3
    /\ loc.receipt.logs[1].address # SAFE_PROXY_FACTORY_ADDRESS
    /\ loc.receipt.logs[2].eventName = ""

\* C19: when the fee source is unavailable, resolveFeeConfig does not throw
\* but yields deposit 0 bps and profit 9700 bps, and predictP2pProxyAddress
\* is then called with the Safe and exactly those two values.
C19_DefaultFeeTerms ==
    /\ ~(result.status = "error" /\ result.at = "sp_fee")
    /\ (pc = "sp_predict" /\ loc.feeAnswer = FeeUnavailable) => loc.feeConfig = <<0, 9700>>
    /\ (loc.predictionRequest # <<>> /\ loc.feeAnswer = FeeUnavailable)
         => loc.predictionRequest = <<loc.safeAddress, 0, 9700>>

\* the 65 bytes of an approved-hash signature of an owner, byte by byte
IsApprovedHashOf(signature, ownerAddress) ==
    /\ Len(signature) = 65
    /\ \A k \in 1..31 : signature[k] = 0
    /\ signature[32] = ownerAddress
    /\ \A k \in 33..64 : signature[k] = 0
    /\ signature[65] = 1

\* C20: the signature built by executeSafeTransaction and passed to every
\* execTransaction is 65 bytes: twelve zero bytes and the 20 bytes of the
\* owner's address, then 32 zero bytes, then the byte 01; it is the same for
\* every Safe transaction of the owner, whatever its fields, counter and digest.
C20_SignatureBytes ==
    /\ loc.signature # <<>> => IsApprovedHashOf(loc.signature, WalletAccount)
    /\ \A i \in DOMAIN txs :
         txs[i].kind = "exec" =>
           /\ IsApprovedHashOf(txs[i].args.signature, txs[i].from)
           /\ \A j \in DOMAIN txs :
                (txs[j].kind = "exec" /\ txs[j].from = txs[i].from)
                  => txs[j].args.signature = txs[i].args.signature

C20_Witness ==
    \E i, j \in DOMAIN txs :
      /\ txs[i].kind = "exec" /\ txs[j].kind = "exec"
      /\ txs[i].from = txs[j].from
      /\ txs[i].args.tx # txs[j].args.tx
      /\ txs[i].status = "success" /\ txs[j].status = "success"

WrittenCall(tx) == <<tx.kind, tx.from, tx.to, tx.args>>

C23_PlainTransfer ==
    /\ op = "transferAsset" =>
         /\ obs.counterReads = 0
         /\ obs.digestReads = 0
         /\ ExecWrites = {}
         /\ loc.signature = <<>>
         /\ loc.preparedTx = NoTx
         /\ Len(obs.writes) <= 1
         /\ \A i \in DOMAIN obs.writes :
              LET tx == txs[obs.writes[i]]
              IN /\ tx.kind = "transfer"
                 /\ tx.from = WalletAccount
                 /\ tx.to = TokenAddress
                 /\ tx.args = [to |-> loc.safeAddress, amount |-> loc.amount]
         /\ result.status = "ok" =>
              /\ Len(obs.writes) = 1
              /\ obs.awaited = obs.writes
              /\ result.value.transactionHash = obs.writes[1]
              /\ txs[obs.writes[1]].status # "pending"
    /\ \A i \in DOMAIN txs :
         txs[i].kind = "transfer" => ApplyTx(ChainState, txs[i]).safes = safes

C23_Witness ==
    /\ op = "transferAsset"
    /\ result.status = "ok"
    /\ loc.safeAddress \in DOMAIN safes
    /\ txs[obs.writes[1]].status = "success"

\* the words an encoded list of calls takes: four per call and its payload
RECURSIVE EncodedLength(_)
EncodedLength(calls) ==
    IF calls = <<>> THEN 0 ELSE 4 + Len(Head(calls).data) + EncodedLength(Tail(calls))

\* C24: the payload encodeMultiSendCallData produces for a list of calls has
\* four words and the payload per call, is empty for the empty list, and
\* decodes to the (operation, target, value, payload) tuples of that list,
\* all of them and in the same order.
C24_BatchRoundTrip ==
    /\ pc \in {"batch_decode", "batch_done"} =>
         /\ Len(loc.encodedTransactions) = EncodedLength(loc.batchedCalls)
         /\ loc.batchedCalls = <<>> => loc.encodedTransactions = <<>>
    /\ pc = "batch_done" =>
         /\ Len(loc.decodedCalls) = Len(loc.batchedCalls)
         /\ \A i \in DOMAIN loc.batchedCalls :
              /\ loc.decodedCalls[i].operation = loc.batchedCalls[i].operation
              /\ loc.decodedCalls[i].to = loc.batchedCalls[i].to
              /\ loc.decodedCalls[i].value = loc.batchedCalls[i].value
              /\ loc.decodedCalls[i].data = loc.batchedCalls[i].data
         /\ loc.decodedCalls = loc.batchedCalls

C24_Witness ==
    /\ pc = "batch_done"
    /\ Len(loc.batchedCalls) = 2
    /\ loc.batchedCalls[1] # loc.batchedCalls[2]
    /\ loc.batchedCalls[1].data = <<OperationCall, P2P_ADDRESS, 0, 0>>
    /\ loc.batchedCalls[2].data = <<>>

\* the address a deployment record gives, Undefined when there is no record
\* or the record holds no address
RecordAddress(deployment) ==
    IF ~deployment.found THEN Undefined
    ELSE IF deployment.networkAddress # Undefined THEN deployment.networkAddress
    ELSE deployment.defaultAddress

\* C25: in a deploySafe called with overrides by a wallet that has an
\* account, a singleton or factory override that is given is the address
\* used, whatever the deployment records hold;
\* without an override the record's address is used (the SafeL2 record before
\* the Safe record); and when there is neither for the singleton, or for the
\* factory, deploySafe throws the matching "no deployment found" error with no
\* transaction written, and throws it in no other case.
C25_AddressResolution ==
    (config.account /\ op = "deploySafeContract"
       /\ (pc # "ds_resolve" \/ result.status # "none")) =>
      LET o == loc.overrides
          d == loc.deployments
          recordSingleton == IF d.singletonL2.found THEN RecordAddress(d.singletonL2)
                             ELSE RecordAddress(d.singleton)
          recordFactory == RecordAddress(d.factory)
          noSingleton == o.singleton = Undefined /\ recordSingleton = Undefined
          noFactory == o.factory = Undefined /\ recordFactory = Undefined
          threw(message) == /\ result.status = "error"
                            /\ result.at = "ds_resolve"
                            /\ result.error = MkError("Error", message)
      IN /\ noSingleton <=> threw(MsgNoSingleton)
         /\ (~noSingleton /\ noFactory) <=> threw(MsgNoFactory)
         /\ (noSingleton \/ noFactory) => (txs = <<>> /\ obs.writes = <<>>)
         /\ ~noSingleton =>
              loc.singletonAddress = IF o.singleton # Undefined THEN o.singleton
                                     ELSE recordSingleton
         /\ (~noSingleton /\ ~noFactory) =>
              loc.factoryAddress = IF o.factory # Undefined THEN o.factory ELSE recordFactory
         /\ \A i \in DOMAIN txs :
              /\ txs[i].kind = "createProxy"
              /\ txs[i].to = loc.factoryAddress
              /\ txs[i].args.singleton = loc.singletonAddress
              /\ o.factory # Undefined => txs[i].to = o.factory
              /\ o.singleton # Undefined => txs[i].args.singleton = o.singleton

C25_Witness ==
    /\ op = "deploySafeContract"
    /\ loc.overrides.singleton = CustomSingleton
    /\ RecordAddress(loc.deployments.singletonL2) = SafeL2Singleton
    /\ loc.singletonAddress = CustomSingleton
    /\ loc.overrides.factory = Undefined
    /\ RecordAddress(loc.deployments.factory) = Undefined
    /\ result.status = "error"
    /\ result.error.message = MsgNoFactory
    /\ txs = <<>>

C27_OneModuleOneAccount ==
    loc.batchedCalls # <<>> =>
      LET deploy == loc.batchedCalls[1]
          enable == loc.batchedCalls[Len(loc.batchedCalls)]
          created == RolesAddressOf(deploy.data[2], deploy.data[4], deploy.data[6])
          account == deploy.data[4]
      IN /\ deploy.data[1] = SelDeployModule
         /\ deploy.data[3] = account
         /\ deploy.data[5] = account
         /\ \A i \in 2..(Len(loc.batchedCalls) - 1) : loc.batchedCalls[i].to = created
         /\ enable.data = <<SelEnableModule, created>>
         /\ enable.to = account
         /\ loc.rolesAddress = created
         /\ loc.safeAddress = account
         /\ loc.predictionRequest[1] = account
         /\ loc.preparedTx # NoTx => loc.preparedTx.hash[1] = account
         /\ \A i \in ExecWrites :
              /\ txs[obs.writes[i]].to = account
              /\ BatchOf(txs[obs.writes[i]]) = loc.batchedCalls
         /\ (result.status = "ok" /\ op \in {"setPermissions", "onboardClient"}) =>
              /\ result.value.rolesAddress = created
              /\ txs[IF op = "setPermissions" THEN result.value.transactionHash
                     ELSE result.value.rolesSetup].status = "success" =>
                   /\ created \in safes[account].modules
                   /\ roles[created].owner = account
                   /\ roles[created].avatar = account

C27_Witness ==
    /\ op = "setPermissions"
    /\ result.status = "ok"
    /\ loc.rolesAddress \in DOMAIN roles
    /\ loc.rolesAddress \in safes[loc.safeAddress].modules

\* C28: with a wallet client that has no account, every operation that was
\* started (deploySafe, setPermissions, transferAsset, onboardClient, the
\* step-by-step wrapper, safe.ts deploySafe and executeSafeTransaction) has
\* thrown "Wallet client must have an active account" from its first test:
\* nothing was read from the chain (no counter, digest, transaction count,
\* fee or prediction read), nothing was written, the nonce manager still holds
\* the nonce it started with, and no retry attempt was made.
C28_NoAccountNoChainAccess ==
    ~config.account =>
      /\ txs = <<>> /\ safes = <<>> /\ roles = <<>>
      /\ obs = ObsInit
      /\ loc.attempt = 0
      /\ loc.predictionRequest = <<>> /\ loc.feeAnswer = <<>>
      /\ loc.nextNonce = loc.pendingCount
      /\ loc.signature = <<>> /\ loc.txHash = Undefined
      /\ pc \in {"idle", "ds_resolve", "exec_write"}
      /\ (pc = "idle" /\ op # "none") =>
           /\ result.status = "error"
           /\ result.error = WalletAccountError
           /\ result.value = NoValue
      /\ lastSafeAddress = Undefined

C28_Witness ==
    /\ ~config.account
    /\ op = "onboardClient"
    /\ opsDone = 2
    /\ result.error = WalletAccountError

\* C29: a setPermissions or transferAsset called without an Account address
\* by a wallet with an account works on the address the client remembers: the
\* setup transaction is sent to it, the tokens are transferred to it; the remembered address is the one of
\* the most recent successful deploySafe or setPermissions call (it is set by
\* a deploySafe that extracted an address and by a setPermissions that has an
\* address, and by nothing else); with no address supplied and none
\* remembered the call throws "Safe address is required" with nothing read or
\* written; a supplied address is the one used.
C29_RememberedAccountAddress ==
    [][LET called == /\ pc = "idle"
                     /\ opsDone' = opsDone + 1
                     /\ op' \in {"setPermissions", "transferAsset"}
                     /\ config.account
           deployed == /\ pc = "ds_wait"
                       /\ pc' # "ds_wait"
                       /\ op \in {"deploySafe", "onboardClientSteps"}
                       /\ loc'.safeAddress # Undefined
           stored == called /\ op' = "setPermissions" /\ loc'.safeAddress # Undefined
       IN /\ (called /\ loc'.safeParam = Undefined /\ lastSafeAddress # Undefined) =>
               /\ loc'.safeAddress = lastSafeAddress
               /\ result'.status = "none"
               /\ pc' # "idle"
          /\ (called /\ loc'.safeParam = Undefined /\ lastSafeAddress = Undefined) =>
               /\ result'.status = "error"
               /\ result'.error = MkError("Error", MsgSafeRequired)
               /\ pc' = "idle"
               /\ txs' = txs /\ safes' = safes /\ roles' = roles
               /\ obs' = ObsInit
               /\ loc' = LocInit
          /\ (called /\ loc'.safeParam # Undefined) => loc'.safeAddress = loc'.safeParam
          /\ (op = "setPermissions" /\ Len(txs') > Len(txs)) =>
               txs'[Len(txs')].to = loc.safeAddress
          /\ (op = "transferAsset" /\ Len(txs') > Len(txs)) =>
               txs'[Len(txs')].args.to = loc.safeAddress
          /\ lastSafeAddress' = IF deployed \/ stored THEN loc'.safeAddress ELSE lastSafeAddress
          /\ deployed => loc'.safeAddress \in DOMAIN safes
      ]_vars

C29_Witness ==
    /\ op = "transferAsset"
    /\ loc.safeParam = Undefined
    /\ lastSafeAddress \in DOMAIN safes
    /\ obs.writes # <<>>
    /\ txs[obs.writes[1]].args.to = lastSafeAddress
    /\ result.status = "ok"

\* the integer an amount denotes, if any: a bigint itself, an integer-valued
\* finite number its value, a string (spaces around it aside) the decimal
\* digits, signed decimal digits, 0x hex digits or 0b binary digits it spells
DenotedInteger(amount) ==
    LET text == Trim(amount.chars)
        rest == SubSeq(text, 3, Len(text))
    IN IF amount.kind = "string"
       THEN IF DigitsIn(text, 10) THEN <<DigitsValue(text, 10), 0>>
            ELSE IF text[1] = "-" THEN <<0 - DigitsValue(Tail(text), 10), 0>>
            ELSE IF text[2] = "x" THEN <<DigitsValue(rest, 16), 0>>
            ELSE <<DigitsValue(rest, 2), 0>>
       ELSE IF amount.mantissa = 0 THEN <<0, 0>>
       ELSE IF amount.exp2 < 0 THEN <<amount.mantissa \div 2, 0>>
       ELSE <<amount.mantissa, amount.exp2>>

DenotesInteger(amount) ==
    LET text == Trim(amount.chars)
        rest == SubSeq(text, 3, Len(text))
    IN \/ amount.kind = "bigint"
       \/ amount.kind = "number" /\ amount.class = "finite"
            /\ (amount.exp2 >= 0 \/ amount.mantissa % 2 = 0)
       \/ /\ amount.kind = "string"
          /\ \/ DigitsIn(text, 10)
             \/ Len(text) > 1 /\ text[1] = "-" /\ DigitsIn(Tail(text), 10)
             \/ Len(text) > 2 /\ text[1] = "0" /\ text[2] = "x" /\ DigitsIn(rest, 16)
             \/ Len(text) > 2 /\ text[1] = "0" /\ text[2] = "b" /\ DigitsIn(rest, 2)

ExplicitAmountErrors ==
    { MkError("Error", "Token transfer amount cannot be empty"),
      MkError("Error", "Token transfer amount must be a numeric string"),
      MkError("Error", "Token transfer amount must be an integer") }

\* C30: normalizeTokenAmount called with a bigint, a number or a string either
\* returns the integer the input denotes, or throws one of its own errors
\* (empty, not a numeric string, not an integer); it returns no other value
\* and throws no other error.
C30_ExactOrExplicitError ==
    (op = "normalizeTokenAmount" /\ pc = "idle"
       /\ loc.amountParam.kind \in {"bigint", "number", "string"}) =>
      IF result.status = "ok"
      THEN /\ DenotesInteger(loc.amountParam)
           /\ loc.normalized.value = DenotedInteger(loc.amountParam)
      ELSE result.error \in ExplicitAmountErrors

\* C31: the execTransaction that executeSafeTransaction writes is made of the
\* Safe address, the call fields (to, value, data, operation), the five fee
\* fields and the approved-hash signature of the wallet account, and of
\* nothing else of the prepared transaction: a prepared transaction with the
\* same fields and any other counter, or with the digest of another Safe,
\* gives the same written transaction; a prepared transaction whose counter
\* is not the Safe's is written all the same.
C31_SubmissionIgnoresCounterAndDigest ==
    (op = "executeSafeTransaction" /\ obs.writes # <<>>) =>
      LET written == txs[obs.writes[1]]
          t == loc.preparedTx
          signature == ApprovedHashSignature(WalletAccount)
      IN /\ Len(obs.writes) = 1
         /\ written.kind = "exec"
         /\ written.from = WalletAccount
         /\ written.to = loc.safeAddress
         /\ DOMAIN written.args = {"tx", "safeTxGas", "baseGas", "gasPrice", "gasToken",
                                   "refundReceiver", "signature"}
         /\ written.args.tx = MkCall(t.to, t.value, t.data, t.operation)
         /\ written.args.signature = signature
         /\ \A counter \in 0..MaxTxs, preparedFor \in {loc.safeAddress, NotASafe, ZeroAddress} :
              LET twin == PreparedSafeTransaction(preparedFor, t.to, t.data, t.value,
                                                  t.operation, counter)
              IN [written EXCEPT !.status = "pending"]
                   = PendingTx("exec", WalletAccount, loc.safeAddress,
                               ExecArgs(twin, signature), written.nonce)

\* a transaction prepared at a counter the Safe does not hold has been
\* written, mined and executed
C31_Witness ==
    /\ op = "executeSafeTransaction"
    /\ result.status = "ok"
    /\ loc.safeAddress \in DOMAIN safes
    /\ loc.preparedTx.nonce = 1
    /\ safes[loc.safeAddress].nonce = 1
    /\ txs[obs.writes[1]].status = "success"

\* C32: setPermissions called with an explicit Account address stores it as
\* the remembered address in the step that starts the call, before any read
\* or write on the chain, and the remembered address is still that address
\* at every later step of the call, a failing one included; setPermissions
\* never touches the remembered batch-contract address.  deploySafe changes
\* the two remembered addresses only in the step that returns its result,
\* to the addresses of that result.  No step of transferAsset changes either.
C32_RememberedAddressesFrame ==
    [][ /\ op' = "transferAsset" =>
              UNCHANGED <<lastSafeAddress, lastMultiSendCallOnly>>
        /\ op' = "deploySafe" =>
              IF pc # "idle" /\ pc' = "idle" /\ result'.status = "ok"
              THEN /\ result'.value.safeAddress \in DOMAIN safes'
                   /\ lastSafeAddress' = result'.value.safeAddress
                   /\ lastMultiSendCallOnly' = result'.value.multiSendCallOnly
              ELSE UNCHANGED <<lastSafeAddress, lastMultiSendCallOnly>>
        /\ op' = "setPermissions" =>
              /\ UNCHANGED lastMultiSendCallOnly
              /\ (config.account /\ loc'.safeParam # Undefined) =>
                    lastSafeAddress' = loc'.safeParam
              /\ IF opsDone' # opsDone /\ config.account /\ loc'.safeParam # Undefined
                 THEN /\ txs' = txs
                      /\ obs' = ObsInit
                      /\ pc' = "sp_fee"
                 ELSE UNCHANGED lastSafeAddress
      ]_vars

\* a setPermissions call for an explicit address that is no Account has
\* failed after a deploySafe remembered another one, and the explicit
\* address is the remembered one
C32_Witness ==
    /\ op = "setPermissions"
    /\ config.account
    /\ pc = "idle"
    /\ result.status = "error"
    /\ loc.safeParam = NotASafe
    /\ lastSafeAddress = NotASafe
    /\ lastMultiSendCallOnly # Undefined
    /\ DOMAIN safes # {}

\* C33: prepareSafeTransaction issues the digest read once: the step that
\* issues it is the first digest read of the operation, follows a counter
\* read that succeeded, and computes the digest for the counter that read
\* returned; when the read fails, with the transient signature or without
\* it, the operation ends in that step with the error of the read as it is,
\* and no read is issued after it.
C33_DigestReadOnceUnretried ==
    [][ /\ obs'.digestReads > obs.digestReads =>
             /\ obs.digestReads = 0
             /\ obs'.digestReads = 1
             /\ obs.counterReads >= 1
             /\ obs'.counterReads = obs.counterReads
             /\ loc.nonce # Undefined
             /\ loc'.nonce = loc.nonce
             /\ \/ /\ pc' = "exec_write"
                   /\ loc'.preparedTx.nonce = loc.nonce
                   /\ loc'.preparedTx.hash =
                        TransactionHash(loc.safeAddress, loc'.preparedTx.to, loc'.preparedTx.value,
                                        loc'.preparedTx.data, loc'.preparedTx.operation, 0, 0, 0,
                                        ZeroAddress, ZeroAddress, loc.nonce)
                \/ /\ pc' = "idle"
                   /\ result'.status = "error"
                   /\ result'.at = "prep_hash"
                   /\ loc'.rawError \in ReadErrors
                   /\ result'.error = loc'.rawError
        /\ (pc = "prep_nonce" /\ pc' = "prep_hash") =>
             /\ obs.digestReads = 0
             /\ loc'.nonce = safes[loc.safeAddress].nonce
        /\ (pc = "prep_hash" /\ pc' # pc) => obs'.digestReads = obs.digestReads + 1
        /\ pc' = "prep_hash" => obs'.digestReads = 0
        /\ (result.status = "error" /\ result.at = "prep_hash" /\ opsDone' = opsDone) =>
             UNCHANGED <<obs, result, pc>>
      ]_vars

\* the counter read succeeded at its third attempt and the digest read then
\* failed once with a transient failure, which is the error of the operation
\* although its normalisation is another error
C33_Witness ==
    /\ result.status = "error"
    /\ result.at = "prep_hash"
    /\ obs.counterReads = 3
    /\ obs.digestReads = 1
    /\ isContractFunctionZeroDataError(result.error)
    /\ normalizeContractFunctionZeroDataError(result.error) # result.error
    /\ result.error = loc.rawError

\* C34: in setPermissions and onboardClient the fee terms are asked for the
\* client address, which is params.clientAddress when supplied and the wallet
\* account's address otherwise, and are resolved before the proxy address is
\* predicted; the prediction is requested for the Account address and the two
\* bps values of the resolved terms, and the predicted address, which the
\* operation returns, is the factory's answer to that request, so it is the
\* same whichever client address the terms were asked for.
C34_FeesForClientProxyForAccount ==
    op \in {"setPermissions", "onboardClient"} =>
      /\ loc.feeRequest # Undefined =>
           /\ loc.feeRequest = IF loc.clientParam # Undefined THEN loc.clientParam
                               ELSE WalletAccount
           /\ loc.feeRequest # loc.safeAddress
      /\ (pc = "sp_predict" \/ loc.predictionRequest # <<>>) =>
           /\ loc.feeRequest # Undefined
           /\ loc.feeConfig = IF config.feeConfigFetcher THEN loc.feeAnswer
                              ELSE fetchFeeConfig(loc.feeAnswer)
      /\ loc.predictionRequest # <<>> =>
           /\ loc.safeAddress # Undefined
           /\ loc.predictionRequest = <<loc.safeAddress, loc.feeConfig[1], loc.feeConfig[2]>>
           /\ loc.predictedProxyAddress =
                PredictP2pYieldProxyAddress(loc.safeAddress, loc.feeConfig[1], loc.feeConfig[2])
      /\ result.status = "ok" =>
           /\ loc.predictionRequest # <<>>
           /\ result.value.predictedProxyAddress = loc.predictedProxyAddress

\* setPermissions succeeded for a supplied client address that is not the
\* wallet account's: the fee terms were asked for that address and answered
\* by the fee source, and the proxy was predicted for the Account
C34_Witness ==
    /\ op = "setPermissions"
    /\ result.status = "ok"
    /\ loc.clientParam = OtherClient
    /\ loc.feeRequest = OtherClient
    /\ loc.feeAnswer = OtherFeeConfig
    /\ loc.predictionRequest[1] = loc.safeAddress
    /\ loc.safeAddress \in DOMAIN safes
    /\ result.value.predictedProxyAddress =
         PredictP2pYieldProxyAddress(loc.safeAddress, OtherFeeConfig[1], OtherFeeConfig[2])
====
